---- MODULE Spec2Model ----
(***************************************************************************)
(* Knowledge-graph store (kg/graph_store.py), entity consolidation         *)
(* (kg/consolidate_entities.py) and the query pipeline (query/*.py).       *)
(*                                                                         *)
(* Strings whose characters matter (entity names, property values) are     *)
(* sequences of one-character strings; tags (entity types, relation        *)
(* types, attribute keys) are plain strings.  A node's attribute dict is a *)
(* function from attribute keys to values, as networkx keeps it.           *)
(***************************************************************************)
EXTENDS Integers, Sequences, FiniteSets, TLC

VARIABLES
    graph_nodes,   \* self.graph.nodes: entity id -> attribute dict
    graph_edges,   \* the edges of the MultiDiGraph, in insertion order
    clock,         \* the value the next datetime.now() returns
    last,          \* the last store call: its arguments and return value
    bfs,           \* find_connected_entities: arguments and locals of a run
    qry            \* a query-pipeline run: inputs, position and result

vars == <<graph_nodes, graph_edges, clock, last, bfs, qry>>

(***************************************************************************)
(* Bounds                                                                  *)
(***************************************************************************)
MaxClock == 4      \* store calls that read the clock
MaxWrap == 2       \* bracket pairs around a name
MaxEdges == 2      \* relationships kept in the store
MaxBfsEdges == 3   \* edges of a graph that is traversed
MaxDepth == 2      \* max_depth of a traversal
MaxItems == 3      \* entities in a store that is queried

(***************************************************************************)
(* Input domains                                                           *)
(***************************************************************************)
EmptyMap == [k \in {} |-> 0]

\* Python values whose kind matters to the query layer: None, an int, a str
None == [kind |-> "none", n |-> 0, s |-> <<>>]
Num(n) == [kind |-> "num", n |-> n, s |-> <<>>]
Str(s) == [kind |-> "str", n |-> 0, s |-> s]

RECURSIVE Wrap(_, _)
Wrap(k, s) == IF k = 0 THEN s ELSE Wrap(k - 1, <<"[">> \o s \o <<"]">>)

Pad(s) == <<" ">> \o s \o <<" ">>

\* names handed to the store: a name bare and wrapped in bracket pairs,
\* padded outside and inside the brackets, a second name, and the names that
\* are or become empty
Names ==
    {Wrap(k, <<"a">>) : k \in 0..MaxWrap}
        \cup {Pad(<<"a">>), Wrap(1, Pad(<<"a">>)), <<"b">>}
        \cup {<<>>, <<" ">>, <<"[", "]">>}

EntityTypes == {"", "Person", "Org"}
\* (properties, description) pairs handed to add_entity
Payloads == {<<EmptyMap, "">>, <<"size" :> Num(1), "d">>}
\* qry of a store without a query layer
NoQuery == [op |-> "none"]
\* ret is the call's return value (its 'success' for a consolidation); removed
\* and updated are a consolidation's consolidated_from, relationships_updated
NoCall == [op |-> "none", name |-> <<>>, to |-> <<>>, type |-> "", ret |-> FALSE,
           removed |-> <<>>, updated |-> 0]

\* (name, entity_type) pairs handed to add_entity: every name with each real
\* type, plus one call with a falsy name and one with a falsy type
EntityCalls ==
    {<<n, t>> : n \in Names \ {<<>>}, t \in EntityTypes \ {""}}
        \cup {<< <<>>, "Person" >>, << <<"a">>, "" >>}

(***************************************************************************)
(* str.strip() and the bracket loop                                        *)
(***************************************************************************)
RECURSIVE lstrip(_)
lstrip(s) == IF s # <<>> /\ Head(s) = " " THEN lstrip(Tail(s)) ELSE s

RECURSIVE rstrip(_)
rstrip(s) ==
    IF s # <<>> /\ s[Len(s)] = " " THEN rstrip(SubSeq(s, 1, Len(s) - 1)) ELSE s

strip(s) == rstrip(lstrip(s))

Contains(s, c) == \E i \in 1..Len(s) : s[i] = c

BracketedBothEnds(s) == s # <<>> /\ s[1] = "[" /\ s[Len(s)] = "]"

\* the loop run at most once: only the outermost pair goes
strip_brackets_OnePair(s) ==
    IF BracketedBothEnds(s) THEN strip(SubSeq(s, 2, Len(s) - 1)) ELSE s

\* while s.startswith('[') and s.endswith(']'): s = s[1:-1].strip()
RECURSIVE strip_brackets(_)
strip_brackets(s) ==
    IF BracketedBothEnds(s)
    THEN strip_brackets(strip(SubSeq(s, 2, Len(s) - 1)))
    ELSE s

(***************************************************************************)
(* KnowledgeGraphStore                                                     *)
(***************************************************************************)
has_node(nodes, id) == id \in DOMAIN nodes

\* _validate_entity_name raises ValueError exactly on a falsy name
validate_raises(name) == name = <<>>

\* the value _validate_entity_name returns
_validate_entity_name(name, entity_type) ==
    LET cleaned_name == strip(name)
    IN  IF entity_type = "Person"
           /\ (Contains(cleaned_name, "[") \/ Contains(cleaned_name, "]"))
        THEN strip_brackets(cleaned_name)
        ELSE cleaned_name

add_entity_returns(name, entity_type) ==
    entity_type # "" /\ ~validate_raises(name)

\* an update that stamps created_at anew instead of keeping the stored one
node_data_FreshCreatedAt(nodes, cleaned_name, entity_type, properties, description, now) ==
    LET fresh == properties @@ ("type" :> entity_type
                                @@ "description" :> description
                                @@ "created_at" :> now)
    IN  IF has_node(nodes, cleaned_name)
           /\ nodes[cleaned_name]["type"] = entity_type
        THEN ("updated_at" :> now) @@ fresh
        ELSE fresh

\* an update that never sets updated_at
node_data_NoUpdatedAt(nodes, cleaned_name, entity_type, properties, description, now) ==
    LET fresh == properties @@ ("type" :> entity_type
                                @@ "description" :> description
                                @@ "created_at" :> now)
    IN  IF has_node(nodes, cleaned_name)
           /\ nodes[cleaned_name]["type"] = entity_type
        THEN ("created_at" :> nodes[cleaned_name]["created_at"]) @@ fresh
        ELSE fresh

\* the attribute dict add_entity hands to graph.add_node
node_data(nodes, cleaned_name, entity_type, properties, description, now) ==
    LET fresh == properties @@ ("type" :> entity_type
                                @@ "description" :> description
                                @@ "created_at" :> now)
    IN  IF has_node(nodes, cleaned_name)
           /\ nodes[cleaned_name]["type"] = entity_type
        THEN ("created_at" :> nodes[cleaned_name]["created_at"]
              @@ "updated_at" :> now) @@ fresh
        ELSE fresh

\* graph.add_node(n, **attrs): a new node gets attrs, an existing node's
\* dict is updated with attrs and keeps its other keys
add_node(nodes, n, attrs) ==
    IF has_node(nodes, n)
    THEN [nodes EXCEPT ![n] = attrs @@ nodes[n]]
    ELSE (n :> attrs) @@ nodes

\* self.graph.nodes after add_entity(name, entity_type, properties, description)
add_entity_nodes(nodes, name, entity_type, properties, description, now) ==
    IF ~add_entity_returns(name, entity_type)
    THEN nodes
    ELSE LET cleaned_name == _validate_entity_name(name, entity_type)
         IN  add_node(nodes, cleaned_name,
                      node_data(nodes, cleaned_name, entity_type,
                                properties, description, now))

AddEntity(name, entity_type, properties, description) ==
    /\ clock < MaxClock
    /\ graph_nodes' = add_entity_nodes(graph_nodes, name, entity_type,
                                       properties, description, clock)
    /\ clock' = IF add_entity_returns(name, entity_type) THEN clock + 1 ELSE clock
    /\ last' = [NoCall EXCEPT !.op = "add_entity", !.name = name,
                              !.type = entity_type,
                              !.ret = add_entity_returns(name, entity_type)]
    /\ UNCHANGED <<graph_edges, bfs, qry>>

\* no fallback to the bracket-stripped name
resolve_endpoint_NoFallback(nodes, entity) == strip(entity)

\* the id add_relationship looks an endpoint up under: the stripped name, or
\* its bracket-stripped form when only that one is a node
resolve_endpoint(nodes, entity) ==
    LET stripped == strip(entity)
        cleaned == strip_brackets(stripped)
    IN  IF ~has_node(nodes, stripped) /\ cleaned # stripped /\ has_node(nodes, cleaned)
        THEN cleaned
        ELSE stripped

add_relationship_returns(nodes, from_entity, to_entity, relation_type) ==
    /\ from_entity # <<>> /\ to_entity # <<>> /\ relation_type # ""
    /\ has_node(nodes, resolve_endpoint(nodes, from_entity))
    /\ has_node(nodes, resolve_endpoint(nodes, to_entity))

\* the edges after add_relationship(from_entity, to_entity, relation_type, weight)
add_relationship_edges(nodes, edges, from_entity, to_entity, relation_type, weight) ==
    IF add_relationship_returns(nodes, from_entity, to_entity, relation_type)
    THEN Append(edges, [source |-> resolve_endpoint(nodes, from_entity),
                        target |-> resolve_endpoint(nodes, to_entity),
                        type |-> relation_type, weight |-> weight])
    ELSE edges

AddRelationship(from_entity, to_entity, relation_type) ==
    /\ Len(graph_edges) < MaxEdges
    /\ graph_edges' = add_relationship_edges(graph_nodes, graph_edges, from_entity,
                                             to_entity, relation_type, 1)
    /\ last' = [NoCall EXCEPT !.op = "add_relationship", !.name = from_entity,
                              !.to = to_entity, !.type = relation_type,
                              !.ret = add_relationship_returns(graph_nodes,
                                         from_entity, to_entity, relation_type)]
    /\ UNCHANGED <<graph_nodes, clock, bfs, qry>>

\* graph.remove_node(n): the node goes, and every edge into or out of it
remove_node_nodes(nodes, n) == [m \in DOMAIN nodes \ {n} |-> nodes[m]]

\* a removal that leaves the edges into the node behind
remove_node_edges_OutgoingOnly(edges, n) ==
    SelectSeq(edges, LAMBDA e : e.source # n)

remove_node_edges(edges, n) ==
    SelectSeq(edges, LAMBDA e : e.source # n /\ e.target # n)

(***************************************************************************)
(* kg_consolidate_entities                                                 *)
(***************************************************************************)
ReservedKeys == {"type", "description", "created_at", "updated_at"}

\* consolidated_properties: the given properties, then every property of the
\* listed entities that is not yet there, in list order
RECURSIVE consolidated_properties(_, _, _)
consolidated_properties(nodes, entity_ids, properties) ==
    IF entity_ids = <<>>
    THEN properties
    ELSE LET data == nodes[Head(entity_ids)]
             own == [k \in DOMAIN data \ ReservedKeys |-> data[k]]
         IN  consolidated_properties(nodes, Tail(entity_ids), properties @@ own)

\* ' | '.join(all_descriptions) over the non-empty descriptions
RECURSIVE joined_descriptions(_, _)
joined_descriptions(nodes, entity_ids) ==
    IF entity_ids = <<>>
    THEN ""
    ELSE LET d == nodes[Head(entity_ids)]["description"]
             rest == joined_descriptions(nodes, Tail(entity_ids))
         IN  IF d = "" THEN rest
             ELSE IF rest = "" THEN d
             ELSE d \o " | " \o rest

final_description(nodes, entity_ids, description) ==
    IF description # "" THEN description ELSE joined_descriptions(nodes, entity_ids)

in_edges(edges, n) == SelectSeq(edges, LAMBDA e : e.target = n)
out_edges(edges, n) == SelectSeq(edges, LAMBDA e : e.source = n)

\* for source, _, edge_data in incoming_edges: re-point at target_entity
RECURSIVE redirect_incoming(_, _, _, _)
redirect_incoming(nodes, edges, incoming, target_entity) ==
    IF incoming = <<>>
    THEN edges
    ELSE LET e == Head(incoming)
         IN  redirect_incoming(nodes,
                 IF e.source # target_entity
                 THEN add_relationship_edges(nodes, edges, e.source, target_entity,
                                             e.type, e.weight)
                 ELSE edges,
                 Tail(incoming), target_entity)

\* for _, target, edge_data in outgoing_edges: re-source at target_entity
RECURSIVE redirect_outgoing(_, _, _, _)
redirect_outgoing(nodes, edges, outgoing, target_entity) ==
    IF outgoing = <<>>
    THEN edges
    ELSE LET e == Head(outgoing)
         IN  redirect_outgoing(nodes,
                 IF e.target # target_entity
                 THEN add_relationship_edges(nodes, edges, target_entity, e.target,
                                             e.type, e.weight)
                 ELSE edges,
                 Tail(outgoing), target_entity)

\* the "Redirect all relationships" loop over entity_ids
RECURSIVE redirect_all(_, _, _, _)
redirect_all(nodes, edges, entity_ids, target_entity) ==
    IF entity_ids = <<>>
    THEN edges
    ELSE LET entity_id == Head(entity_ids)
             after_in == redirect_incoming(nodes, edges, in_edges(edges, entity_id),
                                           target_entity)
             after_out == redirect_outgoing(nodes, after_in,
                                            out_edges(after_in, entity_id),
                                            target_entity)
         IN  redirect_all(nodes,
                          IF entity_id = target_entity THEN edges ELSE after_out,
                          Tail(entity_ids), target_entity)

\* relationships_updated: the add_relationship calls the redirect loop makes
RECURSIVE relationships_updated(_, _, _, _)
relationships_updated(nodes, edges, entity_ids, target_entity) ==
    IF entity_ids = <<>>
    THEN 0
    ELSE LET entity_id == Head(entity_ids)
             incoming == SelectSeq(in_edges(edges, entity_id),
                                   LAMBDA e : e.source # target_entity)
             after_in == redirect_incoming(nodes, edges, in_edges(edges, entity_id),
                                           target_entity)
             outgoing == SelectSeq(out_edges(after_in, entity_id),
                                   LAMBDA e : e.target # target_entity)
         IN  IF entity_id = target_entity
             THEN relationships_updated(nodes, edges, Tail(entity_ids), target_entity)
             ELSE Len(incoming) + Len(outgoing)
                  + relationships_updated(nodes,
                        redirect_all(nodes, edges, <<entity_id>>, target_entity),
                        Tail(entity_ids), target_entity)

\* the "Remove old entities" loop: the ids it removes before it ends or
\* remove_node raises on an id that is no longer a node
RECURSIVE removed_entities(_, _, _)
removed_entities(present, entity_ids, target_entity) ==
    IF entity_ids = <<>>
    THEN <<>>
    ELSE LET entity_id == Head(entity_ids)
         IN  IF entity_id = target_entity
             THEN removed_entities(present, Tail(entity_ids), target_entity)
             ELSE IF entity_id \notin present
             THEN <<>>
             ELSE <<entity_id>> \o removed_entities(present \ {entity_id},
                                                    Tail(entity_ids), target_entity)

\* remove_node raises inside the removal loop (the handler then returns failure)
RECURSIVE removal_raises(_, _, _)
removal_raises(present, entity_ids, target_entity) ==
    IF entity_ids = <<>>
    THEN FALSE
    ELSE LET entity_id == Head(entity_ids)
         IN  IF entity_id = target_entity
             THEN removal_raises(present, Tail(entity_ids), target_entity)
             ELSE IF entity_id \notin present
             THEN TRUE
             ELSE removal_raises(present \ {entity_id}, Tail(entity_ids), target_entity)

RECURSIVE remove_all_nodes(_, _)
remove_all_nodes(nodes, removed) ==
    IF removed = <<>> THEN nodes
    ELSE remove_all_nodes(remove_node_nodes(nodes, Head(removed)), Tail(removed))

RECURSIVE remove_all_edges(_, _)
remove_all_edges(edges, removed) ==
    IF removed = <<>> THEN edges
    ELSE remove_all_edges(remove_node_edges(edges, Head(removed)), Tail(removed))

\* the input validation: a non-empty id list, a target and a type, and every
\* listed id a node
consolidate_rejects(nodes, entity_ids, target_entity, entity_type) ==
    \/ entity_ids = <<>>
    \/ target_entity = <<>> \/ entity_type = ""
    \/ \E i \in 1..Len(entity_ids) : ~has_node(nodes, entity_ids[i])

ConsolidateEntities(entity_ids, target_entity, entity_type, properties, description) ==
    IF consolidate_rejects(graph_nodes, entity_ids, target_entity, entity_type)
    THEN /\ last' = [NoCall EXCEPT !.op = "consolidate", !.name = target_entity,
                                   !.type = entity_type]
         /\ UNCHANGED <<graph_nodes, graph_edges, clock, bfs, qry>>
    ELSE LET props == consolidated_properties(graph_nodes, entity_ids, properties)
             desc == final_description(graph_nodes, entity_ids, description)
             nodes1 == add_entity_nodes(graph_nodes, target_entity, entity_type,
                                        props, desc, clock)
             edges1 == redirect_all(nodes1, graph_edges, entity_ids, target_entity)
             removed == removed_entities(DOMAIN nodes1, entity_ids, target_entity)
             raised == removal_raises(DOMAIN nodes1, entity_ids, target_entity)
         IN  /\ clock < MaxClock
             /\ graph_nodes' = remove_all_nodes(nodes1, removed)
             /\ graph_edges' = remove_all_edges(edges1, removed)
             /\ clock' = clock + 1
             /\ last' = [NoCall EXCEPT
                           !.op = "consolidate", !.name = target_entity,
                           !.type = entity_type, !.ret = ~raised,
                           !.removed = IF raised THEN <<>> ELSE removed,
                           !.updated = IF raised THEN 0
                                       ELSE relationships_updated(nodes1, graph_edges,
                                                entity_ids, target_entity)]
             /\ UNCHANGED <<bfs, qry>>

(***************************************************************************)
(* find_connected_entities                                                 *)
(*                                                                         *)
(* relation_types is a set of types; {} stands for None and for [], which  *)
(* the code treats alike (`if relation_types:`).  One BfsStep is one turn   *)
(* of the while loop.  The order in which a node's neighbours are visited   *)
(* is the adjacency order of the graph ("outgoing", "incoming") or the      *)
(* iteration order of a Python set of strings ("both"); any order can       *)
(* occur, so the step picks one.                                            *)
(***************************************************************************)
Range(f) == {f[i] : i \in DOMAIN f}

Perms(S) == {f \in [1..Cardinality(S) -> S] : Range(f) = S}

successors(edges, n) == {e.target : e \in {x \in Range(edges) : x.source = n}}

predecessors(edges, n) == {e.source : e \in {x \in Range(edges) : x.target = n}}

Directions == {"outgoing", "incoming", "both"}

\* "Get neighbors based on direction"
bfs_neighbors(edges, n, direction) ==
    CASE direction = "outgoing" -> successors(edges, n)
      [] direction = "incoming" -> predecessors(edges, n)
      [] direction = "both" -> successors(edges, n) \cup predecessors(edges, n)

\* the types of the edges graph.get_edge_data(u, v) returns
edge_data_types(edges, u, v) ==
    {e.type : e \in {x \in Range(edges) : x.source = u /\ x.target = v}}

\* the forward check alone, whatever the direction
edge_found_ForwardOnly(edges, current_node, neighbor, relation_types, direction) ==
    edge_data_types(edges, current_node, neighbor) \cap relation_types # {}

\* edge_found: an edge current -> neighbor of an allowed type, or, when the
\* direction is "both", an edge neighbor -> current of an allowed type
edge_found(edges, current_node, neighbor, relation_types, direction) ==
    \/ edge_data_types(edges, current_node, neighbor) \cap relation_types # {}
    \/ /\ direction = "both"
       /\ edge_data_types(edges, neighbor, current_node) \cap relation_types # {}

\* the edge looked up along the direction of travel: neighbor -> current
\* when the direction is "incoming"
accepts_AlongDirection(edges, visited, current_node, neighbor, relation_types, direction) ==
    /\ neighbor \notin visited
    /\ relation_types # {} =>
           IF direction = "incoming"
           THEN edge_data_types(edges, neighbor, current_node) \cap relation_types # {}
           ELSE edge_found(edges, current_node, neighbor, relation_types, direction)

\* a neighbour the loop body appends: unvisited and, when relation_types is
\* given, joined by an allowed edge
accepts(edges, visited, current_node, neighbor, relation_types, direction) ==
    /\ neighbor \notin visited
    /\ relation_types # {} =>
           edge_found(edges, current_node, neighbor, relation_types, direction)

\* an off-by-one depth test
depth_exhausted_Strict(depth, max_depth) == depth > max_depth

\* if depth >= max_depth: continue
depth_exhausted(depth, max_depth) == depth >= max_depth

BfsIdle == [pc |-> "idle", start |-> <<>>, max_depth |-> 0, relation_types |-> {},
            direction |-> "both", visited |-> {}, queue |-> <<>>,
            connected_nodes |-> <<>>]

\* the call, up to the first test of the while loop
FindConnectedCall(start_entity, max_depth, relation_types, direction) ==
    /\ bfs.pc = "idle"
    /\ bfs' = IF ~has_node(graph_nodes, start_entity)
              THEN [BfsIdle EXCEPT !.pc = "done", !.start = start_entity,
                                   !.max_depth = max_depth,
                                   !.relation_types = relation_types,
                                   !.direction = direction]
              ELSE [pc |-> "loop", start |-> start_entity, max_depth |-> max_depth,
                    relation_types |-> relation_types, direction |-> direction,
                    visited |-> {start_entity},
                    queue |-> << <<start_entity, 0>> >>,
                    connected_nodes |-> <<>>]
    /\ UNCHANGED <<graph_nodes, graph_edges, clock, last, qry>>

\* a turn that appends its neighbours without marking them visited
BfsStep_Unmarked ==
    /\ bfs.pc = "loop"
    /\ bfs.queue # <<>>
    /\ LET current_node == Head(bfs.queue)[1]
           depth == Head(bfs.queue)[2]
           rest == Tail(bfs.queue)
       IN  IF depth_exhausted(depth, bfs.max_depth)
           THEN bfs' = [bfs EXCEPT !.queue = rest]
           ELSE IF bfs.direction \notin Directions
           THEN bfs' = [bfs EXCEPT !.pc = "raised", !.queue = rest]
           ELSE LET accepted ==
                        {n \in bfs_neighbors(graph_edges, current_node, bfs.direction) :
                            accepts(graph_edges, bfs.visited, current_node, n,
                                    bfs.relation_types, bfs.direction)}
                IN  \E order \in Perms(accepted) :
                        bfs' = [bfs EXCEPT
                                  !.queue = rest \o [i \in DOMAIN order |->
                                                        <<order[i], depth + 1>>],
                                  !.connected_nodes = @ \o order]
    /\ UNCHANGED <<graph_nodes, graph_edges, clock, last, qry>>

\* one turn of `while queue:`
BfsStep ==
    /\ bfs.pc = "loop"
    /\ bfs.queue # <<>>
    /\ LET current_node == Head(bfs.queue)[1]
           depth == Head(bfs.queue)[2]
           rest == Tail(bfs.queue)
       IN  IF depth_exhausted(depth, bfs.max_depth)
           THEN bfs' = [bfs EXCEPT !.queue = rest]
           ELSE IF bfs.direction \notin Directions
           THEN bfs' = [bfs EXCEPT !.pc = "raised", !.queue = rest]
           ELSE LET accepted ==
                        {n \in bfs_neighbors(graph_edges, current_node, bfs.direction) :
                            accepts(graph_edges, bfs.visited, current_node, n,
                                    bfs.relation_types, bfs.direction)}
                IN  \E order \in Perms(accepted) :
                        bfs' = [bfs EXCEPT
                                  !.visited = @ \cup accepted,
                                  !.queue = rest \o [i \in DOMAIN order |->
                                                        <<order[i], depth + 1>>],
                                  !.connected_nodes = @ \o order]
    /\ UNCHANGED <<graph_nodes, graph_edges, clock, last, qry>>

\* the loop ends on an empty queue: return connected_nodes
BfsReturn ==
    /\ bfs.pc = "loop"
    /\ bfs.queue = <<>>
    /\ bfs' = [bfs EXCEPT !.pc = "done"]
    /\ UNCHANGED <<graph_nodes, graph_edges, clock, last, qry>>

\* the graphs traversed: up to MaxBfsEdges edges over four nodes, typed "rel"
\* between any two nodes (self-loops included) or "other" between A and B
BfsNodes == {<<"A">>, <<"B">>, <<"C">>, <<"D">>}

BfsEdgeUniverse ==
    {[source |-> u, target |-> v, type |-> "rel", weight |-> 1] :
        u \in BfsNodes, v \in BfsNodes}
    \cup {[source |-> u, target |-> v, type |-> "other", weight |-> 1] :
        u \in {<<"A">>, <<"B">>}, v \in {<<"A">>, <<"B">>}}

BfsGraphs == {Range(f) : f \in [1..MaxBfsEdges -> BfsEdgeUniverse]} \cup {{}}

SeqOf(S) == CHOOSE f \in [1..Cardinality(S) -> S] : Range(f) = S

BfsInit ==
    /\ graph_nodes = [n \in BfsNodes |->
                        "type" :> "Org" @@ "description" :> "" @@ "created_at" :> 0]
    /\ \E E \in BfsGraphs : graph_edges = SeqOf(E)
    /\ clock = 1
    /\ last = NoCall
    /\ bfs = BfsIdle
    /\ qry = NoQuery

BfsStarts == {<<"A">>, <<"Z">>}

NextBfs ==
    \/ \E start_entity \in BfsStarts, max_depth \in 0..MaxDepth,
          relation_types \in {{}, {"rel"}}, direction \in Directions \cup {"sideways"} :
        FindConnectedCall(start_entity, max_depth, relation_types, direction)
    \/ BfsStep
    \/ BfsReturn

SpecBfs == BfsInit /\ [][NextBfs]_vars

\* the call runs on: a turn of the loop that can be taken is taken
SpecBfsFair == SpecBfs /\ WF_vars(BfsStep) /\ WF_vars(BfsReturn)

StoreInit ==
    /\ graph_nodes = EmptyMap
    /\ graph_edges = <<>>
    /\ clock = 1
    /\ last = NoCall

Init ==
    /\ StoreInit
    /\ bfs = BfsIdle
    /\ qry = NoQuery

\* the calls made on the full store: two Person/Org names and a bracketed
\* name under both types; endpoints bare, bracketed, padded and empty
StoreEntityCalls ==
    {<< <<"a">>, "Person" >>, << <<"b">>, "Org" >>,
     << Wrap(1, <<"a">>), "Org" >>, << Wrap(1, <<"a">>), "Person" >>}

RelNames == {<<"a">>, Wrap(1, <<"a">>), Pad(<<"a">>), <<>>}

RelCalls ==
    {<<f, <<"b">>, "rel">> : f \in RelNames}
        \cup {<<<<"b">>, t, "rel">> : t \in RelNames}
        \cup {<< <<"a">>, <<"b">>, "" >>}

StorePayload == <<"size" :> Num(1), "d">>

\* entity_ids lists: empty, one id, two ids (a repeated id included)
IdLists(S) == {<<>>} \cup {<<x>> : x \in S} \cup {<<x, y>> : x \in S, y \in S}

NextEntity ==
    \E call \in EntityCalls, payload \in Payloads :
        AddEntity(call[1], call[2], payload[1], payload[2])

SpecEntity == Init /\ [][NextEntity]_vars

Next ==
    \/ \E call \in StoreEntityCalls :
        AddEntity(call[1], call[2], StorePayload[1], StorePayload[2])
    \/ \E call \in RelCalls : AddRelationship(call[1], call[2], call[3])
    \/ \E entity_ids \in IdLists(DOMAIN graph_nodes \cup {<<"b">>}),
          call \in StoreEntityCalls :
        ConsolidateEntities(entity_ids, call[1], call[2], EmptyMap, "")

Spec == Init /\ [][Next]_vars

(***************************************************************************)
(* Properties of the store                                                 *)
(***************************************************************************)
EntityCount(nodes) == Cardinality(DOMAIN nodes)

\* C1: ids are the keys of the node map, so an id names at most one entity;
\* an add_entity call whose (id, type) pair is already in the store adds no
\* node, touches no other entity, and keeps the entity's type, created_at and
\* attribute keys (what it may change is description, properties and
\* updated_at).
C1_ExistingPairUpdatesInPlace ==
    [][(/\ last'.op = "add_entity"
        /\ has_node(graph_nodes, last'.name)
        /\ graph_nodes[last'.name]["type"] = last'.type)
       => LET id == last'.name
          IN  /\ DOMAIN graph_nodes' = DOMAIN graph_nodes
              /\ EntityCount(graph_nodes') = EntityCount(graph_nodes)
              /\ \A m \in DOMAIN graph_nodes \ {id} : graph_nodes'[m] = graph_nodes[m]
              /\ graph_nodes'[id]["type"] = graph_nodes[id]["type"]
              /\ graph_nodes'[id]["created_at"] = graph_nodes[id]["created_at"]
              /\ DOMAIN graph_nodes[id] \subseteq DOMAIN graph_nodes'[id]]_vars

\* an accepted add_entity call has just updated the entity its name spells
C1_Witness ==
    /\ last.op = "add_entity" /\ last.ret
    /\ has_node(graph_nodes, last.name)
    /\ graph_nodes[last.name]["type"] = last.type
    /\ "updated_at" \in DOMAIN graph_nodes[last.name]
    /\ graph_nodes[last.name]["updated_at"] = clock - 1
    /\ graph_nodes[last.name]["created_at"] < clock - 1

\* C2: both endpoints of every relationship are entities of the store, in
\* every state reached by add_entity, add_relationship and consolidation (whose
\* removals take the incident relationships with the node).
C2_NoDanglingRelationship ==
    \A i \in DOMAIN graph_edges :
        /\ has_node(graph_nodes, graph_edges[i].source)
        /\ has_node(graph_nodes, graph_edges[i].target)

\* a consolidation has removed an entity that had relationships, and
\* relationships remain
C2_Witness ==
    /\ last.op = "consolidate" /\ last.ret
    /\ last.removed # <<>>
    /\ last.updated > 0
    /\ graph_edges # <<>>

\* the two calls of C3 made in the current state with the arguments
\* (call, payload): the node maps after the first and after the second
AfterFirst(call, payload) ==
    add_entity_nodes(graph_nodes, call[1], call[2], payload[1], payload[2], clock)

AfterSecond(call, payload) ==
    add_entity_nodes(AfterFirst(call, payload), call[1], call[2],
                     payload[1], payload[2], clock + 1)

TwiceKeepsOneNode(call, payload) ==
    LET id == _validate_entity_name(call[1], call[2])
        n1 == AfterFirst(call, payload)
        n2 == AfterSecond(call, payload)
    IN  /\ has_node(n1, id) /\ has_node(n2, id)
        /\ EntityCount(n2) = EntityCount(n1)
        /\ n2[id]["created_at"] = n1[id]["created_at"]
        /\ "updated_at" \in DOMAIN n2[id]
        /\ n2[id]["updated_at"] = clock + 1

C4_BracketedPersonReusesEntity ==
    [][\A x \in DOMAIN graph_nodes, k \in 1..MaxWrap :
          (/\ graph_nodes[x]["type"] = "Person"
           /\ last'.op = "add_entity"
           /\ last'.type = "Person"
           /\ last'.name = Wrap(k, x))
          => /\ last'.ret
             /\ DOMAIN graph_nodes' = DOMAIN graph_nodes
             /\ EntityCount(graph_nodes') = EntityCount(graph_nodes)
             /\ graph_nodes'[x]["updated_at"] = clock
             /\ graph_nodes'[x]["created_at"] = graph_nodes[x]["created_at"]]_vars

\* add_entity("[[a]]", "Person") has just updated the Person a
C4_Witness ==
    /\ last.op = "add_entity" /\ last.ret
    /\ last.type = "Person"
    /\ last.name = Wrap(2, <<"a">>)
    /\ has_node(graph_nodes, <<"a">>)
    /\ graph_nodes[<<"a">>]["type"] = "Person"
    /\ "updated_at" \in DOMAIN graph_nodes[<<"a">>]
    /\ graph_nodes[<<"a">>]["updated_at"] = clock - 1
    /\ ~has_node(graph_nodes, Wrap(1, <<"a">>))
    /\ ~has_node(graph_nodes, Wrap(2, <<"a">>))

\* C5: every entity of the store has a non-empty id.
C5_NonEmptyIds == \A id \in DOMAIN graph_nodes : id # <<>>

\* the endpoint resolution C8 states: the literal id, else the id without its
\* outer brackets; {} when neither is an entity
LiteralResolution(nodes, entity) ==
    IF has_node(nodes, entity) THEN {entity}
    ELSE IF has_node(nodes, strip_brackets(entity)) THEN {strip_brackets(entity)}
    ELSE {}

\* the resolution the amended C8 states: the same on the whitespace-trimmed id
TrimmedResolution(nodes, entity) == LiteralResolution(nodes, strip(entity))

\* add_relationship returned ok and appended exactly the edge from s to t
AddedOneEdge(s, t) ==
    /\ last'.ret
    /\ Len(graph_edges') = Len(graph_edges) + 1
    /\ SubSeq(graph_edges', 1, Len(graph_edges)) = graph_edges
    /\ graph_edges'[Len(graph_edges')].source = s
    /\ graph_edges'[Len(graph_edges')].target = t
    /\ graph_edges'[Len(graph_edges')].type = last'.type
    /\ graph_nodes' = graph_nodes

RejectedUnchanged ==
    /\ ~last'.ret
    /\ graph_edges' = graph_edges
    /\ graph_nodes' = graph_nodes

\* C8 as stated: the endpoints resolve literally or bracket-stripped; the call
\* adds one edge between them and returns true when both resolve, and returns
\* false and changes nothing otherwise.
C8_Original ==
    [][last'.op = "add_relationship" =>
          LET from == LiteralResolution(graph_nodes, last'.name)
              to == LiteralResolution(graph_nodes, last'.to)
          IN  IF from # {} /\ to # {}
              THEN \E s \in from, t \in to : AddedOneEdge(s, t)
              ELSE RejectedUnchanged]_vars

\* C8 as amended: an empty endpoint or relation type is rejected; otherwise
\* each endpoint is trimmed of surrounding whitespace and then resolved.
C8_EndpointResolution ==
    [][last'.op = "add_relationship" =>
          LET from == TrimmedResolution(graph_nodes, last'.name)
              to == TrimmedResolution(graph_nodes, last'.to)
          IN  IF /\ last'.name # <<>> /\ last'.to # <<>> /\ last'.type # ""
                 /\ from # {} /\ to # {}
              THEN \E s \in from, t \in to : AddedOneEdge(s, t)
              ELSE RejectedUnchanged]_vars

\* add_relationship("[a]", "b", "rel") with no entity "[a]" has just added
\* the edge a -> b
C8_Witness ==
    /\ last.op = "add_relationship" /\ last.ret
    /\ last.name = Wrap(1, <<"a">>)
    /\ ~has_node(graph_nodes, Wrap(1, <<"a">>))
    /\ graph_edges # <<>>
    /\ graph_edges[Len(graph_edges)].source = <<"a">>
    /\ graph_edges[Len(graph_edges)].target = <<"b">>

(***************************************************************************)
(* Properties of find_connected_entities                                   *)
(***************************************************************************)
\* the nodes one hop from a node of S, following edges as direction says
OneHop(S, direction) ==
    {e.target : e \in {x \in Range(graph_edges) :
                          direction \in {"outgoing", "both"} /\ x.source \in S}}
    \cup {e.source : e \in {x \in Range(graph_edges) :
                          direction \in {"incoming", "both"} /\ x.target \in S}}

\* the nodes at distance at most k from start
RECURSIVE Within(_, _, _)
Within(start, k, direction) ==
    IF k = 0 THEN {start}
    ELSE Within(start, k - 1, direction)
             \cup OneHop(Within(start, k - 1, direction), direction)

\* the shortest distance from start of a node that is within max
Distance(start, n, direction, max) ==
    CHOOSE k \in 0..max :
        /\ n \in Within(start, k, direction)
        /\ \A j \in 0..(k - 1) : n \notin Within(start, j, direction)

Edge(u, v, t) == [source |-> u, target |-> v, type |-> t, weight |-> 1]

ChainABCD == {Edge(<<"A">>, <<"B">>, "rel"), Edge(<<"B">>, <<"C">>, "rel"),
              Edge(<<"C">>, <<"D">>, "rel")}

BfsReturned(start, max_depth, relation_types, direction) ==
    /\ bfs.pc = "done"
    /\ bfs.start = start /\ bfs.max_depth = max_depth
    /\ bfs.relation_types = relation_types /\ bfs.direction = direction

\* C6: without relation_types, find_connected returns, without duplicates and
\* without start, exactly the nodes at distance 1..max_depth from start, in
\* non-decreasing distance; on the chain A->B->C->D, (A, 2, outgoing) gives
\* [B, C] and (A, 1) gives [B].
C6_TraversalCorrect ==
    /\ (/\ bfs.pc = "done"
        /\ has_node(graph_nodes, bfs.start)
        /\ bfs.relation_types = {}
        /\ bfs.direction \in Directions)
       => LET out == bfs.connected_nodes
              d(n) == Distance(bfs.start, n, bfs.direction, bfs.max_depth)
          IN  /\ \A i, j \in DOMAIN out : i # j => out[i] # out[j]
              /\ bfs.start \notin Range(out)
              /\ Range(out) =
                     Within(bfs.start, bfs.max_depth, bfs.direction) \ {bfs.start}
              /\ \A i, j \in DOMAIN out : i < j => d(out[i]) <= d(out[j])
    /\ (Range(graph_edges) = ChainABCD /\ BfsReturned(<<"A">>, 2, {}, "outgoing"))
       => bfs.connected_nodes = << <<"B">>, <<"C">> >>
    /\ (/\ Range(graph_edges) = ChainABCD
        /\ \E direction \in {"outgoing", "both"} :
               BfsReturned(<<"A">>, 1, {}, direction))
       => bfs.connected_nodes = << <<"B">> >>

\* find_connected(A, 2, outgoing) has returned [B, C] on the chain
C6_Witness ==
    /\ Range(graph_edges) = ChainABCD
    /\ BfsReturned(<<"A">>, 2, {}, "outgoing")
    /\ bfs.connected_nodes = << <<"B">>, <<"C">> >>

\* C7: with direction both and relation_types R, a turn of the loop at node c
\* appends exactly the unvisited nodes n joined to c by an edge c -> n or
\* n -> c of a type in R; with the only edge B -> A typed rel,
\* find_connected(A, 1, both, [rel]) returns B.
C7_BothChecksReverseEdge ==
    [][/\ (/\ bfs.pc = "loop" /\ bfs.queue # <<>>
           /\ bfs.direction = "both" /\ bfs.relation_types # {}
           /\ Head(bfs.queue)[2] < bfs.max_depth)
          => LET c == Head(bfs.queue)[1]
                 appended == Range(bfs'.connected_nodes) \ Range(bfs.connected_nodes)
             IN  /\ appended =
                        {n \in DOMAIN graph_nodes \ bfs.visited :
                            \E e \in Range(graph_edges) :
                                /\ e.type \in bfs.relation_types
                                /\ \/ e.source = c /\ e.target = n
                                   \/ e.source = n /\ e.target = c}
                 /\ bfs'.visited = bfs.visited \cup appended
       /\ (/\ bfs'.pc = "done"
           /\ Range(graph_edges) = {Edge(<<"B">>, <<"A">>, "rel")}
           /\ bfs'.start = <<"A">> /\ bfs'.max_depth = 1
           /\ bfs'.direction = "both" /\ bfs'.relation_types = {"rel"})
          => bfs'.connected_nodes = << <<"B">> >>]_vars

\* find_connected(A, 1, both, [rel]) has returned [B] where the only edge is
\* B -> A
C7_Witness ==
    /\ Range(graph_edges) = {Edge(<<"B">>, <<"A">>, "rel")}
    /\ BfsReturned(<<"A">>, 1, {"rel"}, "both")
    /\ bfs.connected_nodes = << <<"B">> >>

(***************************************************************************)
(* Query layer: Python values                                              *)
(***************************************************************************)
\* the characters that occur in names and property values, by code point
Alphabet ==
    <<" ", "-", "0", "1", "2", "3", "4", "5", "6", "7", "8", "9",
      "D", "N", "O", "P", "[", "]",
      "a", "b", "d", "e", "f", "g", "i", "l", "n", "o", "p", "r", "s",
      "u", "v", "x", "y", "z">>

ord(c) == CHOOSE i \in 1..Len(Alphabet) : Alphabet[i] = c

Digits == <<"0", "1", "2", "3", "4", "5", "6", "7", "8", "9">>

isdigit(c) == \E i \in 1..Len(Digits) : Digits[i] = c

digit_value(c) == (CHOOSE i \in 1..Len(Digits) : Digits[i] = c) - 1

lower_char(c) ==
    CASE c = "D" -> "d"
      [] c = "O" -> "o"
      [] c = "P" -> "p"
      [] OTHER -> c

\* str.lower()
lower(s) == [i \in 1..Len(s) |-> lower_char(s[i])]

\* the characters of a tag (an entity type or a description)
text(tag) ==
    CASE tag = "" -> <<>>
      [] tag = "d" -> <<"d">>
      [] tag = "e" -> <<"e">>
      [] tag = "file" -> <<"f", "i", "l", "e">>
      [] tag = "Org" -> <<"O", "r", "g">>
      [] tag = "Person" -> <<"P", "e", "r", "s", "o", "n">>

\* an isoformat timestamp; n is the clock value it was taken at
Time(t) == [kind |-> "time", n |-> t, s |-> <<>>]

\* the Python value held under a key of a node's attribute dict
py_value(key, raw) ==
    CASE key = "name" -> Str(raw)
      [] key \in {"type", "description"} -> Str(text(raw))
      [] key \in {"created_at", "updated_at"} -> Time(raw)
      [] OTHER -> raw

\* dict.get(key): None when the key is missing
dict_get(d, key) == IF key \in DOMAIN d THEN py_value(key, d[key]) ELSE None

RECURSIVE parse_digits(_)
parse_digits(s) ==
    IF s = <<>> THEN 0
    ELSE parse_digits(SubSeq(s, 1, Len(s) - 1)) * 10 + digit_value(s[Len(s)])

unsigned(s) == IF s # <<>> /\ s[1] = "-" THEN Tail(s) ELSE s

\* float(v) raises ValueError or TypeError
float_raises(v) ==
    CASE v.kind = "num" -> FALSE
      [] v.kind = "str" ->
            \/ unsigned(v.s) = <<>>
            \/ \E i \in 1..Len(unsigned(v.s)) : ~isdigit(unsigned(v.s)[i])
      [] OTHER -> TRUE

\* float(v)
float(v) ==
    IF v.kind = "num" THEN v.n
    ELSE IF v.s[1] = "-" THEN 0 - parse_digits(Tail(v.s))
    ELSE parse_digits(v.s)

RECURSIVE nat_str(_)
nat_str(n) ==
    IF n < 10 THEN <<Digits[n + 1]>>
    ELSE nat_str(n \div 10) \o <<Digits[(n % 10) + 1]>>

\* str(v)
str(v) ==
    CASE v.kind = "str" -> v.s
      [] v.kind = "num" -> IF v.n < 0 THEN <<"-">> \o nat_str(0 - v.n) ELSE nat_str(v.n)
      [] v.kind = "none" -> <<"N", "o", "n", "e">>

str_less_ByLength(s, t) == Len(s) < Len(t)

\* s < t on str: the first differing character decides, a proper prefix is
\* smaller
str_less(s, t) ==
    \E i \in 1..Len(t) :
        /\ i <= Len(s) + 1
        /\ \A j \in 1..(i - 1) : s[j] = t[j]
        /\ \/ i = Len(s) + 1
           \/ ord(s[i]) < ord(t[i])

\* >, <, >=, <= on two str
str_compare(operator, s, t) ==
    CASE operator = "gt" -> str_less(t, s)
      [] operator = "lt" -> str_less(s, t)
      [] operator = "gte" -> ~str_less(s, t)
      [] operator = "lte" -> ~str_less(t, s)

\* >, <, >=, <= on two float
float_compare(operator, x, y) ==
    CASE operator = "gt" -> x > y
      [] operator = "lt" -> x < y
      [] operator = "gte" -> x >= y
      [] operator = "lte" -> x <= y

\* operator.lower() and the spellings the evaluator accepts
operator_name(operator) ==
    CASE operator \in {"equals", "eq", "="} -> "eq"
      [] operator \in {"not_equals", "ne", "!="} -> "ne"
      [] operator \in {"gt", "GT", ">"} -> "gt"
      [] operator \in {"lt", "LT", "<"} -> "lt"
      [] operator \in {"gte", "GTE", ">="} -> "gte"
      [] operator \in {"lte", "LTE", "<="} -> "lte"
      [] OTHER -> "unknown"

evaluate_property_condition(node_attrs, field_name, operator, value) ==
    LET field_value == dict_get(node_attrs, field_name)
        op == operator_name(operator)
    IN  IF field_value = None THEN FALSE
        ELSE CASE op = "eq" -> field_value = value
               [] op = "ne" -> field_value # value
               [] op \in {"gt", "lt", "gte", "lte"} ->
                    IF float_raises(field_value) \/ float_raises(value)
                    THEN str_compare(op, str(field_value), str(value))
                    ELSE float_compare(op, float(field_value), float(value))
               [] OTHER -> FALSE

(***************************************************************************)
(* Query layer: filters (query/filter_processors.py)                       *)
(***************************************************************************)
\* d.get(key, default) on a query dict
get(d, key, default) == IF key \in DOMAIN d THEN d[key] ELSE default

\* a condition of a properties spec: a dict of operator -> value, or a literal
OpCondition(ops) == [isdict |-> TRUE, ops |-> ops, lit |-> None]
Literal(v) == [isdict |-> FALSE, ops |-> EmptyMap, lit |-> v]

\* every operator condition of a key has to hold
properties_match_AllOperators(node_attrs, properties_spec) ==
    \A prop_name \in DOMAIN properties_spec :
        LET prop_condition == properties_spec[prop_name]
        IN  IF prop_condition.isdict
            THEN \A operator \in DOMAIN prop_condition.ops :
                    evaluate_property_condition(node_attrs, prop_name, operator,
                                                prop_condition.ops[operator])
            ELSE dict_get(node_attrs, prop_name) = prop_condition.lit

\* "matches" at the end of filter_by_properties' inner loop
properties_match(node_attrs, properties_spec) ==
    \A prop_name \in DOMAIN properties_spec :
        LET prop_condition == properties_spec[prop_name]
        IN  IF prop_condition.isdict
            THEN \E operator \in DOMAIN prop_condition.ops :
                    evaluate_property_condition(node_attrs, prop_name, operator,
                                                prop_condition.ops[operator])
            ELSE dict_get(node_attrs, prop_name) = prop_condition.lit

RECURSIVE filter_by_properties(_, _, _)
filter_by_properties(nodes, candidates, properties_spec) ==
    IF candidates = <<>> THEN <<>>
    ELSE LET candidate == candidates[Len(candidates)]
             filtered == filter_by_properties(
                            nodes, SubSeq(candidates, 1, Len(candidates) - 1),
                            properties_spec)
         IN  IF has_node(nodes, candidate)
                /\ properties_match(nodes[candidate], properties_spec)
             THEN Append(filtered, candidate)
             ELSE filtered

RECURSIVE filter_by_type(_, _, _)
filter_by_type(nodes, candidates, entity_type) ==
    IF candidates = <<>> THEN <<>>
    ELSE LET candidate == candidates[Len(candidates)]
             type_filtered == filter_by_type(
                                 nodes, SubSeq(candidates, 1, Len(candidates) - 1),
                                 entity_type)
         IN  IF has_node(nodes, candidate) /\ nodes[candidate]["type"] = entity_type
             THEN Append(type_filtered, candidate)
             ELSE type_filtered

(***************************************************************************)
(* Query layer: where conditions                                           *)
(***************************************************************************)
\* a condition of a where tree: a dict, a str, or another value
WDict(d) == [k |-> "dict", d |-> d, s |-> <<>>]
WStr(s) == [k |-> "str", d |-> EmptyMap, s |-> s]
WInt == [k |-> "int", d |-> EmptyMap, s |-> <<>>]
WNone == [k |-> "none", d |-> EmptyMap, s |-> <<>>]

\* \w and [><=!] over the characters the string conditions are written in
WordChars == Range(Digits) \cup {"_", "a", "c", "d", "e", "h", "i", "n", "o", "s", "t", "u", "z"}
OperatorChars == {">", "<", "=", "!"}
NonSpaceChars == WordChars \cup OperatorChars \cup {"-"}

\* the length of the longest prefix of s made of the given characters
run_length(s, chars) ==
    CHOOSE n \in 0..Len(s) :
        /\ \A i \in 1..n : s[i] \in chars
        /\ n = Len(s) \/ s[n + 1] \notin chars

\* s from its first character that is no space
after_spaces(s) == SubSeq(s, run_length(s, {" "}) + 1, Len(s))

\* s without its first n characters
drop(s, n) == SubSeq(s, n + 1, Len(s))

\* the attribute a field name of a string condition reads
key_of(field) ==
    CASE field = <<"s", "i", "z", "e">> -> "size"
      [] field = <<"c", "r", "e", "a", "t", "e", "d", "_", "d", "a", "t", "e">> ->
            "created_date"
      [] OTHER -> "nosuch"

\* the comparison of parse_string_condition once the text has matched
compare_parsed(field_value, op, value) ==
    IF field_value = None THEN FALSE
    ELSE IF float_raises(field_value) \/ float_raises(Str(value))
    THEN CASE op = <<"=", "=">> -> str(field_value) = value
           [] op = <<"!", "=">> -> str(field_value) # value
           [] OTHER -> FALSE
    ELSE CASE op = <<">">> -> float(field_value) > float(Str(value))
           [] op = <<"<">> -> float(field_value) < float(Str(value))
           [] op = <<">", "=">> -> float(field_value) >= float(Str(value))
           [] op = <<"<", "=">> -> float(field_value) <= float(Str(value))
           [] op = <<"=", "=">> -> float(field_value) = float(Str(value))
           [] op = <<"!", "=">> -> float(field_value) # float(Str(value))
           [] OTHER -> FALSE

\* re.match of \s*(\w+)\s*([><=!]+|CONTAINS)\s*(["'].*["']|\S+)\s* on a text
\* without quotes and without the word CONTAINS: a word, a run of operator
\* characters, a run of non-spaces; when nothing follows the operator run its
\* last character is given back to be the value
parse_string_condition(node_attrs, condition_str) ==
    LET word == after_spaces(condition_str)
        w == run_length(word, WordChars)
        operator == after_spaces(drop(word, w))
        r == run_length(operator, OperatorChars)
        rest == after_spaces(drop(operator, r))
    IN  IF w = 0 \/ r = 0 \/ (rest = <<>> /\ r < 2) THEN FALSE
        ELSE IF rest = <<>>
        THEN compare_parsed(dict_get(node_attrs, key_of(SubSeq(word, 1, w))),
                            SubSeq(operator, 1, r - 1), <<operator[r]>>)
        ELSE compare_parsed(dict_get(node_attrs, key_of(SubSeq(word, 1, w))),
                            SubSeq(operator, 1, r),
                            SubSeq(rest, 1, run_length(rest, NonSpaceChars)))

\* the loop over the fields of a dict without all, any and not: one field
\* condition that fails makes the dict fail
field_conditions_hold_AnyOperator(node_attrs, condition) ==
    \A field_name \in DOMAIN condition \ {"all", "any", "not"} :
        IF condition[field_name].isdict
        THEN \E op \in DOMAIN condition[field_name].ops :
                evaluate_property_condition(node_attrs, field_name, op,
                                            condition[field_name].ops[op])
        ELSE dict_get(node_attrs, field_name) = condition[field_name].lit

field_conditions_hold(node_attrs, condition) ==
    \A field_name \in DOMAIN condition \ {"all", "any", "not"} :
        IF condition[field_name].isdict
        THEN \A op \in DOMAIN condition[field_name].ops :
                evaluate_property_condition(node_attrs, field_name, op,
                                            condition[field_name].ops[op])
        ELSE dict_get(node_attrs, field_name) = condition[field_name].lit

RECURSIVE evaluate_condition(_, _)
evaluate_condition(node_attrs, condition) ==
    IF condition.k = "dict"
    THEN IF "all" \in DOMAIN condition.d
         THEN \A i \in 1..Len(condition.d["all"]) :
                evaluate_condition(node_attrs, condition.d["all"][i])
         ELSE IF "any" \in DOMAIN condition.d
         THEN \E i \in 1..Len(condition.d["any"]) :
                evaluate_condition(node_attrs, condition.d["any"][i])
         ELSE IF "not" \in DOMAIN condition.d
         THEN ~evaluate_condition(node_attrs, condition.d["not"])
         ELSE field_conditions_hold(node_attrs, condition.d)
    ELSE IF condition.k = "str"
    THEN parse_string_condition(node_attrs, condition.s)
    ELSE FALSE

RECURSIVE apply_where_conditions(_, _, _)
apply_where_conditions(nodes, candidates, where_spec) ==
    IF candidates = <<>> THEN <<>>
    ELSE LET candidate == candidates[Len(candidates)]
             filtered == apply_where_conditions(
                            nodes, SubSeq(candidates, 1, Len(candidates) - 1),
                            where_spec)
         IN  IF has_node(nodes, candidate)
                /\ evaluate_condition(nodes[candidate], where_spec)
             THEN Append(filtered, candidate)
             ELSE filtered

(***************************************************************************)
(* Query layer: semantic similarity (kg/embeddings.py, filter_processors)  *)
(***************************************************************************)
\* the outcome of a call: it returns a value or raises an exception
Return(v) == [raises |-> "", value |-> v]
Raise(exception, message) == [raises |-> exception, value |-> message]

\* self.embeddings: None, or an EmbeddingManager.  encode is what its model
\* makes of a text, a unit vector of four components in tenths; fails are
\* the texts on which the model raises
NoEmbeddings == [present |-> FALSE, fails |-> {}, encode |-> EmptyMap]
EmbeddingManager(encode, fails) == [present |-> TRUE, fails |-> fails, encode |-> encode]

\* np.zeros(self.embedding_dim)
ZeroVector == <<0, 0, 0, 0>>

\* the vector of a text the table does not name
OtherVector == <<1, 7, 5, 5>>

generate_embedding(embeddings, t) ==
    IF t = <<>> \/ strip(t) = <<>> THEN Return(ZeroVector)
    ELSE IF strip(t) \in embeddings.fails THEN Raise("RuntimeError", "encode failed")
    ELSE Return(get(embeddings.encode, strip(t), OtherVector))

\* np.dot on two vectors in tenths: the similarity in hundredths
dot(a, b) == a[1] * b[1] + a[2] * b[2] + a[3] * b[3] + a[4] * b[4]

\* a float as numerator and denominator
Float(num, den) == [num |-> num, den |-> den]

ComparisonOperators == {<<">", "=">>, <<"<", "=">>, <<">">>, <<"<">>, <<"=", "=">>, <<"!", "=">>}

\* the operator a stripped comparison string starts with: (>=|<=|>|<|==|!=)
leading_operator(s) ==
    IF Len(s) >= 2 /\ SubSeq(s, 1, 2) \in ComparisonOperators THEN SubSeq(s, 1, 2)
    ELSE IF Len(s) >= 1 /\ SubSeq(s, 1, 1) \in ComparisonOperators THEN SubSeq(s, 1, 1)
    ELSE <<>>

\* [-\d.]+
number_chars(s) ==
    s # <<>> /\ \A i \in 1..Len(s) : isdigit(s[i]) \/ s[i] \in {"-", "."}

\* float(s) raises ValueError, for s of digits, '-' and '.'
decimal_raises(s) ==
    LET body == unsigned(strip(s))
        dots == {i \in 1..Len(body) : body[i] = "."}
    IN  \/ Cardinality(dots) > 1
        \/ \E i \in 1..Len(body) : ~isdigit(body[i]) /\ body[i] # "."
        \/ Len(body) = Cardinality(dots)

RECURSIVE power_of_ten(_)
power_of_ten(k) == IF k = 0 THEN 1 ELSE 10 * power_of_ten(k - 1)

\* float(s) where it does not raise
decimal(s) ==
    LET t == strip(s)
        body == unsigned(t)
        digits == SelectSeq(body, isdigit)
        dots == {i \in 1..Len(body) : body[i] = "."}
        places == IF dots = {} THEN 0 ELSE Len(body) - (CHOOSE i \in dots : TRUE)
        magnitude == parse_digits(digits)
    IN  Float(IF t[1] = "-" THEN 0 - magnitude ELSE magnitude, power_of_ten(places))

DefaultComparison == [operator |-> <<">", "=">>, value |-> Float(0, 1)]

parse_comparison(comparison_spec) ==
    IF comparison_spec.kind = "num"
    THEN Return([operator |-> <<">", "=">>, value |-> Float(comparison_spec.n, 1)])
    ELSE IF comparison_spec.kind # "str" THEN Return(DefaultComparison)
    ELSE LET s == strip(comparison_spec.s)
             operator == leading_operator(s)
             number == strip(SubSeq(s, Len(operator) + 1, Len(s)))
         IN  IF operator # <<>> /\ number_chars(number)
             THEN IF decimal_raises(number)
                  THEN Raise("ValueError", "could not convert string to float")
                  ELSE Return([operator |-> operator, value |-> decimal(number)])
             ELSE IF decimal_raises(s) THEN Return(DefaultComparison)
             ELSE Return([operator |-> <<">", "=">>, value |-> decimal(s)])

\* similarity <operator> value, the similarity in hundredths
similarity_holds(operator, similarity, value) ==
    LET a == similarity * value.den
        b == value.num * 100
    IN  CASE operator = <<">", "=">> -> a >= b
          [] operator = <<">">> -> a > b
          [] operator = <<"<", "=">> -> a <= b
          [] operator = <<"<">> -> a < b
          [] operator = <<"=", "=">> -> a = b
          [] operator = <<"!", "=">> -> a # b
          [] OTHER -> FALSE

\* node_data.get('description', candidate)
text_to_embed(node_attrs, candidate) ==
    IF "description" \in DOMAIN node_attrs
    THEN text(node_attrs["description"])
    ELSE candidate

\* the loop of filter_by_semantic_similarity
RECURSIVE similarity_loop(_, _, _, _, _)
similarity_loop(nodes, candidates, target_embedding, threshold_spec, embeddings) ==
    IF candidates = <<>> THEN <<>>
    ELSE LET candidate == candidates[Len(candidates)]
             filtered_candidates ==
                similarity_loop(nodes, SubSeq(candidates, 1, Len(candidates) - 1),
                                target_embedding, threshold_spec, embeddings)
         IN  IF ~has_node(nodes, candidate) THEN filtered_candidates
             ELSE LET candidate_embedding ==
                        generate_embedding(embeddings,
                                           text_to_embed(nodes[candidate], candidate))
                  IN  IF candidate_embedding.raises # "" THEN filtered_candidates
                      ELSE IF similarity_holds(threshold_spec.operator,
                                               dot(target_embedding,
                                                   candidate_embedding.value),
                                               threshold_spec.value)
                      THEN Append(filtered_candidates, candidate)
                      ELSE filtered_candidates

\* a failure on one candidate ends the filter with nothing
filter_by_semantic_similarity_Aborting(nodes, candidates, similar_to, threshold_spec, embeddings) ==
    IF ~embeddings.present \/ generate_embedding(embeddings, similar_to).raises # ""
    THEN <<>>
    ELSE IF \E i \in 1..Len(candidates) :
                /\ has_node(nodes, candidates[i])
                /\ generate_embedding(
                        embeddings,
                        text_to_embed(nodes[candidates[i]], candidates[i])).raises # ""
    THEN <<>>
    ELSE similarity_loop(nodes, candidates,
                         generate_embedding(embeddings, similar_to).value,
                         threshold_spec, embeddings)

filter_by_semantic_similarity(nodes, candidates, similar_to, threshold_spec, embeddings) ==
    IF ~embeddings.present THEN <<>>
    ELSE LET target_embedding == generate_embedding(embeddings, similar_to)
         IN  IF target_embedding.raises # "" THEN <<>>
             ELSE similarity_loop(nodes, candidates, target_embedding.value,
                                  threshold_spec, embeddings)

\* nodes_def.get('threshold', '> 0.5')
DefaultThreshold == Str(<<">", " ", "0", ".", "5">>)

\* the type, name and properties steps of _apply_all_filters, which come
\* before the similar_to step
filters_before_similarity(nodes, candidates, nodes_def) ==
    LET entity_type == get(nodes_def, "type", "")
        by_type == IF entity_type # ""
                   THEN filter_by_type(nodes, candidates, entity_type)
                   ELSE candidates
        name_filter == get(nodes_def, "name", <<>>)
        by_name == IF name_filter # <<>>
                   THEN SelectSeq(by_type, LAMBDA c : c = name_filter)
                   ELSE by_type
    IN  IF "properties" \in DOMAIN nodes_def
        THEN filter_by_properties(nodes, by_name, nodes_def["properties"])
        ELSE by_name

\* parse_comparison of the similar_to step, where that step is taken
threshold_outcome(nodes_def) ==
    parse_comparison(get(nodes_def, "threshold", DefaultThreshold))

\* _apply_all_filters raises: the float() of parse_comparison does
_apply_all_filters_raises(nodes_def) ==
    get(nodes_def, "similar_to", <<>>) # <<>> /\ threshold_outcome(nodes_def).raises # ""

\* the properties of the outer level applied whatever the node clauses hold
_apply_all_filters_Both(nodes, candidates, nodes_def, query_def, embeddings) ==
    LET by_props == filters_before_similarity(nodes, candidates, nodes_def)
        similar_to == get(nodes_def, "similar_to", <<>>)
        by_similarity ==
            IF similar_to # <<>>
            THEN filter_by_semantic_similarity(nodes, by_props, similar_to,
                                               threshold_outcome(nodes_def).value,
                                               embeddings)
            ELSE by_props
    IN  IF "properties" \in DOMAIN query_def
        THEN filter_by_properties(nodes, by_similarity, query_def["properties"])
        ELSE by_similarity

\* the type, name, properties and similar_to steps of _apply_all_filters, and
\* the properties of the outer level; the value where it does not raise
_apply_all_filters(nodes, candidates, nodes_def, query_def, embeddings) ==
    LET by_props == filters_before_similarity(nodes, candidates, nodes_def)
        similar_to == get(nodes_def, "similar_to", <<>>)
        by_similarity ==
            IF similar_to # <<>>
            THEN filter_by_semantic_similarity(nodes, by_props, similar_to,
                                               threshold_outcome(nodes_def).value,
                                               embeddings)
            ELSE by_props
    IN  IF "properties" \in DOMAIN query_def /\ "properties" \notin DOMAIN nodes_def
        THEN filter_by_properties(nodes, by_similarity, query_def["properties"])
        ELSE by_similarity

(***************************************************************************)
(* Query layer: formatting, sorting, limiting                              *)
(***************************************************************************)
extract_nodes_definition(query_def) ==
    IF "nodes" \in DOMAIN query_def THEN query_def["nodes"] ELSE query_def

extract_return_specification(nodes_def) ==
    get(nodes_def, "return", <<"name", "type">>)

\* the result dict of one node
result_item(node_name, node_attrs, return_spec) ==
    [field \in {"name"} \cup Range(return_spec) |->
        IF field = "name" THEN Str(node_name) ELSE dict_get(node_attrs, field)]

RECURSIVE format_node_results(_, _, _)
format_node_results(nodes, candidates, return_spec) ==
    IF candidates = <<>> THEN <<>>
    ELSE LET node_name == candidates[Len(candidates)]
             results == format_node_results(
                           nodes, SubSeq(candidates, 1, Len(candidates) - 1),
                           return_spec)
         IN  IF has_node(nodes, node_name)
             THEN Append(results, result_item(node_name, nodes[node_name], return_spec))
             ELSE results

\* no string over Alphabet looks like a datetime ('T', or '-' with ':'); the
\* isoformat timestamps are the values of kind "time"
_normalize_sort_value(value) ==
    CASE value.kind = "none" -> Str(<<>>)
      [] value.kind = "str" -> Str(lower(value.s))
      [] OTHER -> value

\* item.get(field), normalized
get_sort_key(item, field) == _normalize_sort_value(get(item, field, None))

\* k1 < k2 on sort keys of one kind
key_less(k1, k2) ==
    IF k1.kind = "str" THEN str_less(k1.s, k2.s) ELSE k1.n < k2.n

sort_raises_Never(results, field) == FALSE

\* sorted() compares keys of two kinds and raises TypeError
sort_raises(results, field) ==
    \E i, j \in 1..Len(results) :
        get_sort_key(results[i], field).kind # get_sort_key(results[j], field).kind

\* x comes before y in the sorted list
before(x, y, field, reverse) ==
    IF reverse
    THEN key_less(get_sort_key(y, field), get_sort_key(x, field))
    ELSE key_less(get_sort_key(x, field), get_sort_key(y, field))

\* sorted(results, key=get_sort_key, reverse=reverse): stable
RECURSIVE sorted(_, _, _)
sorted(results, field, reverse) ==
    IF results = <<>> THEN <<>>
    ELSE LET x == results[Len(results)]
             s == sorted(SubSeq(results, 1, Len(results) - 1), field, reverse)
             later == {i \in 1..Len(s) : before(x, s[i], field, reverse)}
             k == IF later = {} THEN Len(s) + 1
                  ELSE CHOOSE i \in later : \A j \in later : i <= j
         IN  SubSeq(s, 1, k - 1) \o <<x>> \o SubSeq(s, k, Len(s))

_sort_by_single_field(results, field, direction) ==
    sorted(results, field, direction \in {"desc", "DESC"})

\* the value under order_by: a str, a list of {field, direction} dicts, or
\* another value
Field(f) == [kind |-> "str", field |-> f, specs |-> <<>>]
Fields(sort_specs) == [kind |-> "list", field |-> "", specs |-> sort_specs]
NoOrder == [kind |-> "none", field |-> "", specs |-> <<>>]

\* direction.lower() == 'asc'
ascending(spec) == get(spec, "direction", "asc") \in {"asc", "ASC"}

\* val1 < val2 in compare_items raises TypeError on a pair of items: at the
\* first field they are not equal on, their values are of two kinds
RECURSIVE compare_raises(_, _, _)
compare_raises(item1, item2, sort_specs) ==
    IF sort_specs = <<>> THEN FALSE
    ELSE LET val1 == get_sort_key(item1, get(Head(sort_specs), "field", ""))
             val2 == get_sort_key(item2, get(Head(sort_specs), "field", ""))
         IN  IF val1.kind # val2.kind THEN TRUE
             ELSE IF val1 = val2 THEN compare_raises(item1, item2, Tail(sort_specs))
             ELSE FALSE

\* compare_items where it does not raise: -1, 0 or 1
RECURSIVE compare_items_Ascending(_, _, _)
compare_items_Ascending(item1, item2, sort_specs) ==
    IF sort_specs = <<>> THEN 0
    ELSE LET val1 == get_sort_key(item1, get(Head(sort_specs), "field", ""))
             val2 == get_sort_key(item2, get(Head(sort_specs), "field", ""))
         IN  IF key_less(val1, val2) THEN 0 - 1
             ELSE IF key_less(val2, val1) THEN 1
             ELSE compare_items_Ascending(item1, item2, Tail(sort_specs))

RECURSIVE compare_items(_, _, _)
compare_items(item1, item2, sort_specs) ==
    IF sort_specs = <<>> THEN 0
    ELSE LET val1 == get_sort_key(item1, get(Head(sort_specs), "field", ""))
             val2 == get_sort_key(item2, get(Head(sort_specs), "field", ""))
             result == IF key_less(val1, val2) THEN 0 - 1 ELSE 1
         IN  IF key_less(val1, val2) \/ key_less(val2, val1)
             THEN IF ascending(Head(sort_specs)) THEN result ELSE 0 - result
             ELSE compare_items(item1, item2, Tail(sort_specs))

\* sorted(results, key=cmp_to_key(compare_items)): stable
RECURSIVE sorted_by_items(_, _)
sorted_by_items(results, sort_specs) ==
    IF results = <<>> THEN <<>>
    ELSE LET x == results[Len(results)]
             s == sorted_by_items(SubSeq(results, 1, Len(results) - 1), sort_specs)
             later == {i \in 1..Len(s) : compare_items(x, s[i], sort_specs) < 0}
             k == IF later = {} THEN Len(s) + 1
                  ELSE CHOOSE i \in later : \A j \in later : i <= j
         IN  SubSeq(s, 1, k - 1) \o <<x>> \o SubSeq(s, k, Len(s))

\* a sort must compare every pair it cannot order through a third item, and
\* a pair that raises is such a pair: the sort raises when some pair does
multiple_raises(results, sort_specs) ==
    \E i, j \in 1..Len(results) : compare_raises(results[i], results[j], sort_specs)

_sort_by_multiple_fields(results, sort_specs) == sorted_by_items(results, sort_specs)

\* a TypeError of the sort is caught and the results come back as they were
_sort_results(results, order_by, default_order) ==
    IF results = <<>> THEN results
    ELSE IF order_by.kind = "str"
    THEN IF sort_raises(results, order_by.field) THEN results
         ELSE _sort_by_single_field(results, order_by.field, default_order)
    ELSE IF order_by.kind = "list"
    THEN IF multiple_raises(results, order_by.specs) THEN results
         ELSE _sort_by_multiple_fields(results, order_by.specs)
    ELSE results

\* a bool and a float, next to None, Num and Str, as the value under limit
Bool(b) == [kind |-> "bool", n |-> IF b THEN 1 ELSE 0, s |-> <<>>]
Half(n) == [kind |-> "float", n |-> n, s |-> <<>>]

\* `if x:` on a value
truthy(x) ==
    CASE x.kind = "none" -> FALSE
      [] x.kind = "str" -> x.s # <<>>
      [] x.kind = "float" -> TRUE
      [] OTHER -> x.n # 0

\* isinstance(x, int): a bool is an int
is_int(x) == x.kind \in {"num", "bool"}

\* results[:limit] for limit > 0
first_items(results, limit) ==
    SubSeq(results, 1, IF limit < Len(results) THEN limit ELSE Len(results))

\* the limit step on the ordered results
limited_to(ordered, limit) ==
    IF truthy(limit) /\ is_int(limit) /\ limit.n > 0
    THEN first_items(ordered, limit.n)
    ELSE ordered

\* `if order_by:` on the value under order_by
order_given(order_by) ==
    CASE order_by.kind = "str" -> order_by.field # ""
      [] order_by.kind = "list" -> order_by.specs # <<>>
      [] OTHER -> FALSE

_apply_sorting_and_limiting(results, query_def) ==
    IF results = <<>> THEN results
    ELSE limited_to(IF order_given(get(query_def, "order_by", NoOrder))
                    THEN _sort_results(results, get(query_def, "order_by", NoOrder),
                                       get(query_def, "order", "asc"))
                    ELSE results,
                    get(query_def, "limit", None))

\* the value where _apply_all_filters does not raise
_execute_node_filter_query(nodes, node_list, nodes_def, query_def, embeddings) ==
    LET candidates == _apply_all_filters(nodes, node_list, nodes_def, query_def,
                                         embeddings)
        return_spec == extract_return_specification(nodes_def)
        results == format_node_results(nodes, candidates, return_spec)
    IN  _apply_sorting_and_limiting(results, query_def)

(***************************************************************************)
(* Query layer: runs                                                       *)
(***************************************************************************)
\* qry of a store no query has run on; node_list is list(graph.nodes())
QueryIdle(node_list) ==
    [node_list |-> node_list, op |-> "none", query_def |-> EmptyMap,
     candidates |-> <<>>, properties_spec |-> EmptyMap, where_spec |-> WNone,
     results |-> <<>>]

\* a find_nodes query without relations and depth, or a 'find' query with
\* a nodes section: _execute_node_filter_query.
\* A run reads the store and leaves it alone, so one run per store is followed.
FindNodesQuery(query_def) ==
    /\ qry.op = "none"
    /\ "relations" \notin DOMAIN query_def
    /\ "depth" \notin DOMAIN query_def
    /\ qry' = [QueryIdle(qry.node_list) EXCEPT
                 !.op = "find_nodes",
                 !.query_def = query_def,
                 !.results = _execute_node_filter_query(
                                graph_nodes, qry.node_list,
                                extract_nodes_definition(query_def), query_def,
                                NoEmbeddings)]
    /\ UNCHANGED <<graph_nodes, graph_edges, clock, last, bfs>>

\* FilterProcessor.filter_by_properties called on a candidate list
FilterByProperties(candidates, properties_spec) ==
    /\ qry.op = "none"
    /\ qry' = [QueryIdle(qry.node_list) EXCEPT
                 !.op = "filter_by_properties",
                 !.candidates = candidates,
                 !.properties_spec = properties_spec,
                 !.results = filter_by_properties(graph_nodes, candidates,
                                                  properties_spec)]
    /\ UNCHANGED <<graph_nodes, graph_edges, clock, last, bfs>>

\* FilterProcessor.apply_where_conditions called on a candidate list
ApplyWhereConditions(candidates, where_spec) ==
    /\ qry.op = "none"
    /\ qry' = [QueryIdle(qry.node_list) EXCEPT
                 !.op = "apply_where_conditions",
                 !.candidates = candidates,
                 !.where_spec = where_spec,
                 !.results = apply_where_conditions(graph_nodes, candidates,
                                                    where_spec)]
    /\ UNCHANGED <<graph_nodes, graph_edges, clock, last, bfs>>

D09 == <<"2", "0", "2", "5", "-", "0", "7", "-", "0", "9">>
D10 == <<"2", "0", "2", "5", "-", "0", "7", "-", "1", "0">>
D11 == <<"2", "0", "2", "5", "-", "0", "7", "-", "1", "1">>
D12 == <<"2", "0", "2", "5", "-", "0", "7", "-", "1", "2">>

\* the entities queries run on: id -> <<type, properties>>
QueryEntities ==
    <<"x">> :> <<"file", "size" :> Num(512) @@ "created_date" :> Str(D09)>>
    @@ <<"y">> :> <<"file", "size" :> Num(2048) @@ "created_date" :> Str(D12)>>
    @@ <<"z">> :> <<"file", "size" :> Num(1024) @@ "created_date" :> Str(D11)>>
    @@ <<"u">> :> <<"Org", "size" :> Num(512) @@ "created_date" :> Str(<<"9">>)>>
    @@ <<"v">> :> <<"Person", "created_date" :> Str(<<"1", "0">>)>>

\* the orders in which up to MaxItems of them are added to an empty store
InsertionOrders ==
    UNION {{f \in [1..k -> DOMAIN QueryEntities] :
                \A i, j \in 1..k : i # j => f[i] # f[j]} : k \in 0..MaxItems}

\* self.graph.nodes after add_entity on each id of order, at clock 1, 2, ...
RECURSIVE built_nodes(_)
built_nodes(order) ==
    IF order = <<>> THEN EmptyMap
    ELSE LET id == order[Len(order)]
         IN  add_entity_nodes(built_nodes(SubSeq(order, 1, Len(order) - 1)), id,
                              QueryEntities[id][1], QueryEntities[id][2], "",
                              Len(order))

QueryInit ==
    \E order \in InsertionOrders :
        /\ graph_nodes = built_nodes(order)
        /\ graph_edges = <<>>
        /\ clock = Len(order) + 1
        /\ last = IF order = <<>> THEN NoCall
                  ELSE [NoCall EXCEPT !.op = "add_entity",
                                      !.name = order[Len(order)],
                                      !.type = QueryEntities[order[Len(order)]][1],
                                      !.ret = TRUE]
        /\ bfs = BfsIdle
        /\ qry = QueryIdle(order)

\* a dict with or without a key
Opt(key, values) == {EmptyMap} \cup {key :> v : v \in values}

ReturnSpecs == {<<"name", "size">>, <<"name", "type", "created_date">>}

NodesDefs ==
    {a @@ b : a \in Opt("type", {"file"}), b \in Opt("return", ReturnSpecs)}
        \cup {"name" :> <<"x">>,
              "properties" :> ("created_date" :> OpCondition("gt" :> Str(D10)))}

\* the query keys read outside the nodes section
Toplevels ==
    {a @@ b @@ c :
        a \in Opt("order_by", {Field("size"), Field("name"), Field("type"),
                              Field("created_date")}),
        b \in Opt("order", {"asc", "desc", "DESC"}),
        c \in Opt("limit", {Num(2)})}

\* queries with a nodes section, and flat ones
QueryDefs ==
    {("nodes" :> n) @@ t : n \in NodesDefs, t \in Toplevels}
        \cup {n @@ t : n \in NodesDefs, t \in Toplevels}

FilterValues == {Str(D10), Str(<<"1", "0">>), Num(1024), Str(<<"x">>)}

PropertiesSpecs ==
    {prop :> OpCondition(op :> v) :
        prop \in {"created_date", "size"},
        op \in {"gt", "lt", "gte", "lte", "eq", "GT", "like"},
        v \in FilterValues}
        \cup {"size" :> Literal(Num(512)),
              "created_date" :> OpCondition("lt" :> Str(D10) @@ "gt" :> Str(D11)),
              "size" :> OpCondition("gte" :> Num(1024))
                  @@ "created_date" :> OpCondition("lte" :> Str(D11)),
              "size" :> Literal(Num(512))
                  @@ "created_date" :> OpCondition("lt" :> Str(D10) @@ "gt" :> Str(D11)),
              "size" :> OpCondition(EmptyMap),
              EmptyMap}

Reverse(s) == [i \in 1..Len(s) |-> s[Len(s) + 1 - i]]

\* the store's nodes in order and reversed, and with a name that is no node
CandidateLists(node_list) ==
    {node_list, Reverse(node_list), <<<<"w">>>> \o node_list}

NextQuery ==
    \/ \E query_def \in QueryDefs : FindNodesQuery(query_def)
    \/ \E candidates \in CandidateLists(qry.node_list),
          properties_spec \in PropertiesSpecs :
            FilterByProperties(candidates, properties_spec)

SpecQuery == QueryInit /\ [][NextQuery]_vars

\* size between 1024 and 1024: both operator conditions hold for z alone
SizeIs1024 == WDict("size" :> OpCondition("gte" :> Num(1024) @@ "lte" :> Num(1024)))
SizeIs512 == WDict("size" :> Literal(Num(512)))

\* the leaf maps of the where trees
LeafMaps ==
    {SizeIs512, SizeIs1024,
     WDict("size" :> OpCondition("gte" :> Num(1024))
            @@ "created_date" :> OpCondition("lte" :> Str(D11))),
     WDict("type" :> Literal(Str(<<"f", "i", "l", "e">>))),
     WDict(EmptyMap)}

\* 'size>600', 'size == 512', 'size!==', 'size', 'nosuch < 5'
StringConditions ==
    {WStr(<<"s", "i", "z", "e", ">", "6", "0", "0">>),
     WStr(<<"s", "i", "z", "e", " ", "=", "=", " ", "5", "1", "2">>),
     WStr(<<"s", "i", "z", "e", "!", "=", "=">>),
     WStr(<<"s", "i", "z", "e">>),
     WStr(<<"n", "o", "s", "u", "c", "h", " ", "<", " ", "5">>)}

\* the conditions that hold no condition
Atoms == LeafMaps \cup StringConditions \cup {WInt, WNone}

\* all, any and not over atoms
Shallow ==
    {WDict(key :> children) :
        key \in {"all", "any"},
        children \in {<<>>} \cup {<<a>> : a \in Atoms}
                        \cup {<<a, b>> : a, b \in LeafMaps \cup {WInt}}}
        \cup {WDict("not" :> a) : a \in Atoms}

\* all, any and not over all, any and not
Nested2 ==
    {WDict(key :> <<a, WDict("not" :> b)>>) :
        key \in {"all", "any"}, a \in LeafMaps, b \in Atoms}
        \cup {WDict("not" :> WDict(key :> <<a, b>>)) :
                key \in {"all", "any"}, a, b \in {SizeIs512, SizeIs1024, WInt}}
        \cup {WDict("not" :> WDict("not" :> a)) : a \in Atoms}

WhereSpecs == Atoms \cup Shallow \cup Nested2

NextWhere ==
    \E candidates \in CandidateLists(qry.node_list), where_spec \in WhereSpecs :
        ApplyWhereConditions(candidates, where_spec)

SpecWhere == QueryInit /\ [][NextWhere]_vars

\* a {field, direction} object of an order_by list
SortSpec(f, direction) == "field" :> f @@ "direction" :> direction

SizeDescNameAsc == <<SortSpec("size", "desc"), SortSpec("name", "asc")>>

\* the values under order_by: absent, one field, lists of sort specs
OrderBys ==
    Opt("order_by",
        {Field("size"), Field("name"),
         Fields(SizeDescNameAsc),
         Fields(<<SortSpec("type", "asc"), SortSpec("size", "DESC")>>),
         Fields(<<"field" :> "type", SortSpec("created_date", "desc")>>),
         Fields(<<"field" :> "size">>)})

\* the values under limit: absent, integers, a string, a float, a bool
Limits ==
    Opt("limit", {Num(1), Num(2), Num(0), Num(0 - 1), Str(<<"2">>), Half(1),
                  Bool(TRUE)})

SortReturns == {<<"name", "size", "type">>, <<"name", "type", "created_date">>}

\* node queries told apart by their sorting and limiting only
SortQueryDefs ==
    {("nodes" :> ("return" :> r)) @@ o @@ l :
        r \in SortReturns, o \in OrderBys, l \in Limits}

NextSort == \E query_def \in SortQueryDefs : FindNodesQuery(query_def)

SpecSort == QueryInit /\ [][NextSort]_vars

(***************************************************************************)
(* Query layer: properties                                                 *)
(***************************************************************************)
\* the ids of a result list of a node query
ResultNames(results) == [i \in 1..Len(results) |-> results[i]["name"].s]

\* the entities' values of attribute f, in the order of the results
AttributeValues(results, f) ==
    [i \in 1..Len(results) |-> dict_get(graph_nodes[results[i]["name"].s], f)]

OrderedRun ==
    /\ qry.op = "find_nodes"
    /\ "order_by" \in DOMAIN qry.query_def
    /\ "order" \in DOMAIN qry.query_def
    /\ qry.query_def["order"] \in {"asc", "desc"}

\* the store holds exactly x, y and z
StoreIsXYZ == DOMAIN graph_nodes = {<<"x">>, <<"y">>, <<"z">>}

\* C9: a node-find query with order_by f and order asc returns its results in
\* non-decreasing order of the entities' values of attribute f (non-increasing
\* for desc) whatever its return specification is, the default [name, type]
\* included; x(512), y(2048), z(1024) ordered by size asc yield [x, z, y].
\* Stated for runs in which every returned entity has a number under f.
C9_SortedByAttribute ==
    OrderedRun =>
        LET f == qry.query_def["order_by"].field
            values == AttributeValues(qry.results, f)
            n == Len(qry.results)
        IN  /\ (\A i \in 1..n : values[i].kind = "num") =>
                    \A i \in 1..(n - 1) :
                        IF qry.query_def["order"] = "asc"
                        THEN values[i].n <= values[i + 1].n
                        ELSE values[i].n >= values[i + 1].n
            /\ (/\ StoreIsXYZ
                /\ f = "size"
                /\ qry.query_def["order"] = "asc"
                /\ "limit" \notin DOMAIN qry.query_def
                /\ n = Cardinality(DOMAIN graph_nodes)) =>
                    ResultNames(qry.results) = << <<"x">>, <<"z">>, <<"y">> >>

RECURSIVE LexLess(_, _)
LexLess(s, t) ==
    IF t = <<>> THEN FALSE
    ELSE IF s = <<>> THEN TRUE
    ELSE IF s[1] = t[1] THEN LexLess(Tail(s), Tail(t))
    ELSE ord(s[1]) < ord(t[1])

\* the run filtered on one property with one of gt, lt, gte, lte
OrderFilterRun ==
    /\ qry.op = "filter_by_properties"
    /\ Cardinality(DOMAIN qry.properties_spec) = 1
    /\ \A prop \in DOMAIN qry.properties_spec :
            /\ qry.properties_spec[prop].isdict
            /\ Cardinality(DOMAIN qry.properties_spec[prop].ops) = 1
            /\ DOMAIN qry.properties_spec[prop].ops \subseteq {"gt", "lt", "gte", "lte"}

\* s op t by the lexicographic order of strings
LexHolds(op, s, t) ==
    CASE op = "gt" -> LexLess(t, s)
      [] op = "lt" -> LexLess(s, t)
      [] op = "gte" -> s = t \/ LexLess(t, s)
      [] op = "lte" -> s = t \/ LexLess(s, t)

\* out holds the elements of in at strictly increasing positions
IsSubsequence(out, in) ==
    \E pos \in [1..Len(out) -> 1..Len(in)] :
        /\ \A i \in 1..Len(out) : out[i] = in[pos[i]]
        /\ \A i, j \in 1..Len(out) : i < j => pos[i] < pos[j]

DateFilter == "created_date" :> OpCondition("gt" :> Str(D10))

\* C10: the properties filter with gt, lt, gte or lte on a stored value and a
\* filter value that cannot both be cast to numbers matches exactly when the
\* two, as strings, compare so lexicographically; the filter's output is the
\* subsequence of the candidates that match, in their original order; with
\* created_date 2025-07-09 (x), 2025-07-12 (y), 2025-07-11 (z) and
\* {gt: 2025-07-10} exactly y and z come back, in candidate order.
C10_StringOrderSubsequence ==
    /\ qry.op = "filter_by_properties" =>
        /\ IsSubsequence(qry.results, qry.candidates)
        /\ \A i \in 1..Len(qry.candidates) :
                (\E j \in 1..Len(qry.results) : qry.results[j] = qry.candidates[i])
                    <=> /\ has_node(graph_nodes, qry.candidates[i])
                        /\ properties_match(graph_nodes[qry.candidates[i]],
                                            qry.properties_spec)
    /\ OrderFilterRun =>
        \A prop \in DOMAIN qry.properties_spec :
            \A op \in DOMAIN qry.properties_spec[prop].ops :
                \A c \in Range(qry.candidates) \cap DOMAIN graph_nodes :
                    LET value == qry.properties_spec[prop].ops[op]
                        stored == dict_get(graph_nodes[c], prop)
                    IN  (stored # None /\ (float_raises(stored) \/ float_raises(value)))
                            => (c \in Range(qry.results)
                                    <=> LexHolds(op, str(stored), str(value)))
    /\ (/\ qry.op = "filter_by_properties"
        /\ qry.properties_spec = DateFilter
        /\ qry.candidates = qry.node_list
        /\ StoreIsXYZ) =>
            qry.results = SelectSeq(qry.node_list, LAMBDA c : c \in {<<"y">>, <<"z">>})

\* the date filter has run on z, x, y in that order and returned z, y
C10_Witness ==
    /\ qry.op = "filter_by_properties"
    /\ qry.properties_spec = DateFilter
    /\ qry.candidates = << <<"z">>, <<"x">>, <<"y">> >>
    /\ qry.results = << <<"z">>, <<"y">> >>

\* one key of a properties spec on one entity: a literal by equality, an
\* operator map by any one of its conditions
KeyMatches(node_attrs, key, condition) ==
    IF condition.isdict
    THEN \E op \in DOMAIN condition.ops :
            evaluate_property_condition(node_attrs, key, op, condition.ops[op])
    ELSE dict_get(node_attrs, key) = condition.lit

TwoOperators == "created_date" :> OpCondition("lt" :> Str(D10) @@ "gt" :> Str(D11))

\* C11: the properties filter keeps an entity if and only if every property
\* key of the spec matches (outer AND); a key with a literal matches on
\* equality, a key with an operator map matches when at least one of its
\* operator conditions holds (inner OR).
C11_OuterAndInnerOr ==
    qry.op = "filter_by_properties" =>
        \A c \in Range(qry.candidates) :
            c \in Range(qry.results)
                <=> /\ c \in DOMAIN graph_nodes
                    /\ \A key \in DOMAIN qry.properties_spec :
                            KeyMatches(graph_nodes[c], key, qry.properties_spec[key])

\* x (before the 10th) and y (after the 11th) pass the two-operator map, z
\* (the 11th) passes neither operator
C11_Witness ==
    /\ qry.op = "filter_by_properties"
    /\ qry.properties_spec = TwoOperators
    /\ qry.candidates = << <<"x">>, <<"y">>, <<"z">> >>
    /\ qry.results = << <<"x">>, <<"y">> >>

(***************************************************************************)
(* Query engine: parsing (query/query_parsers.py)                          *)
(***************************************************************************)
\* what yaml.safe_load makes of a query text: it raises YAMLError, or loads
\* None, an int, a str, a list or a mapping.  A mapping is a dict d with the
\* key that comes first in iteration order; a key is a str whose characters
\* are not looked at
YamlError == [k |-> "error"]
YNone == [k |-> "none"]
YInt(n) == [k |-> "int", n |-> n]
YStr(s) == [k |-> "str", s |-> s]
YList(items) == [k |-> "list", items |-> items]
YMap(first, d) == [k |-> "map", first |-> first, d |-> d]
YKey(s) == [k |-> "key", s |-> s]

\* a mapping whose iteration order is not read
Dict(d) == YMap(IF DOMAIN d = {} THEN "" ELSE CHOOSE key \in DOMAIN d : TRUE, d)

\* key = next(iter(x)); value = x[key]
first_item(x) ==
    CASE x.k \in {"none", "int"} -> Raise("TypeError", "not iterable")
      [] x.k = "str" ->
            IF x.s = <<>> THEN Raise("StopIteration", "")
            ELSE Raise("TypeError", "string indices must be integers")
      [] x.k = "list" ->
            IF x.items = <<>> THEN Raise("StopIteration", "")
            ELSE LET key == x.items[1]
                     n == Len(x.items)
                 IN  IF key.k # "int"
                     THEN Raise("TypeError", "list indices must be integers")
                     ELSE IF key.n >= 0 /\ key.n < n
                     THEN Return(<<key, x.items[key.n + 1]>>)
                     ELSE IF key.n < 0 /\ key.n >= 0 - n
                     THEN Return(<<key, x.items[n + key.n + 1]>>)
                     ELSE Raise("IndexError", "list index out of range")
      [] x.k = "map" ->
            IF DOMAIN x.d = {} THEN Raise("StopIteration", "")
            ELSE Return(<<YKey(x.first), x.d[x.first]>>)

\* except (yaml.YAMLError, StopIteration)
parser_catches(exception) == exception \in {"YAMLError", "StopIteration"}

FormatError == Raise("ValueError", "Invalid YAML query format")

\* what leaves the try block of parse_yaml_query
parse_body(query_data) ==
    IF query_data.k = "error" THEN Raise("YAMLError", "")
    ELSE LET outer == first_item(query_data)
         IN  IF outer.raises # "" THEN outer
             ELSE LET inner == first_item(outer.value[2])
                  IN  IF inner.raises # "" THEN inner
                      ELSE Return([name |-> outer.value[1],
                                   type |-> inner.value[1],
                                   definition |-> inner.value[2]])

parse_yaml_query(query_data) ==
    LET body == parse_body(query_data)
    IN  IF body.raises # "" /\ parser_catches(body.raises) THEN FormatError
        ELSE body

(***************************************************************************)
(* Query engine: compiling and running (query/query_compilers.py)          *)
(***************************************************************************)
\* sub in s on two str
contains_str(sub, s) ==
    \E i \in 0..(Len(s) - Len(sub)) : SubSeq(s, i + 1, i + Len(sub)) = sub

NodesKey == <<"n", "o", "d", "e", "s">>

\* "nodes" in query_def
nodes_in(query_def) ==
    CASE query_def.k = "map" -> Return("nodes" \in DOMAIN query_def.d)
      [] query_def.k = "str" -> Return(contains_str(NodesKey, query_def.s))
      [] query_def.k = "list" ->
            Return(\E i \in 1..Len(query_def.items) : query_def.items[i] = YStr(NodesKey))
      [] OTHER -> Raise("TypeError", "argument is not iterable")

\* the compiled query: which execute() closure, over which definition
Closure(run, query_def) == [run |-> run, query_def |-> query_def]

type_is(query_type, name) == query_type.k = "key" /\ query_type.s = name

\* a definition without nodes is compiled as it is
_compile_find_query_Flat(query_def) ==
    LET has_nodes == nodes_in(query_def)
    IN  IF has_nodes.raises # "" THEN has_nodes
        ELSE Return(Closure("find_nodes", query_def))

_compile_find_query(query_def) ==
    LET has_nodes == nodes_in(query_def)
    IN  IF has_nodes.raises # "" THEN has_nodes
        ELSE IF has_nodes.value THEN Return(Closure("find_nodes", query_def))
        ELSE Raise("ValueError", "Find query must specify 'nodes' target")

compile_query(parsed_query) ==
    LET query_type == parsed_query.type
        query_def == parsed_query.definition
    IN  IF type_is(query_type, "find_nodes")
        THEN Return(Closure("find_nodes", query_def))
        ELSE IF type_is(query_type, "find_path")
        THEN Return(Closure("find_path", query_def))
        ELSE IF type_is(query_type, "find")
        THEN _compile_find_query(query_def)
        ELSE Raise("ValueError", "Unsupported query type")

\* a value that is not a mapping has no get()
no_get(query_def) == Raise("AttributeError", "object has no attribute 'get'")

\* the methods of KnowledgeGraphStore (kg/graph_store.py)
StoreMethods ==
    {"add_entity", "get_entity", "add_relationship", "find_connected_entities",
     "get_entities_by_type", "get_all_entity_types", "get_subgraph",
     "search_entities", "get_statistics", "export_to_format",
     "import_from_format", "save"}

\* the results of a run: a list, or the dict of a connectivity query
RList(items) == [kind |-> "list", items |-> items]
RDict(d) == [kind |-> "dict", d |-> d]

\* execute() of _compile_find_path_query.  The store has no
\* find_shortest_path, so the loop over its paths is never reached
find_path_execute(query_def) ==
    IF query_def.k # "map" THEN no_get(query_def)
    ELSE LET from_node == get(query_def.d, "from", <<>>)
             to_node == get(query_def.d, "to", <<>>)
         IN  IF from_node = <<>> \/ to_node = <<>>
             THEN Raise("ValueError",
                        "'from' and 'to' nodes must be specified for path finding.")
             ELSE IF "find_shortest_path" \notin StoreMethods
             THEN Raise("AttributeError",
                        "'KnowledgeGraphStore' object has no attribute 'find_shortest_path'")
             ELSE Return(RList(<<>>))

\* the loop of find_connected_entities run to its end: the set of the nodes
\* it returns (the order of the neighbours decides their order only)
RECURSIVE bfs_loop(_, _, _, _, _, _, _)
bfs_loop(edges, queue, visited, connected, max_depth, relation_types, direction) ==
    IF queue = <<>> THEN connected
    ELSE LET current_node == Head(queue)[1]
             depth == Head(queue)[2]
             accepted == {n \in bfs_neighbors(edges, current_node, direction) :
                            accepts(edges, visited, current_node, n,
                                    relation_types, direction)}
             order == SeqOf(accepted)
         IN  IF depth_exhausted(depth, max_depth)
             THEN bfs_loop(edges, Tail(queue), visited, connected, max_depth,
                           relation_types, direction)
             ELSE bfs_loop(edges,
                           Tail(queue) \o [i \in DOMAIN order |-> <<order[i], depth + 1>>],
                           visited \cup accepted, connected \cup accepted,
                           max_depth, relation_types, direction)

find_connected_entities(nodes, edges, start_entity, max_depth, relation_types, direction) ==
    IF ~has_node(nodes, start_entity) THEN {}
    ELSE bfs_loop(edges, << <<start_entity, 0>> >>, {start_entity}, {},
                  max_depth, relation_types, direction)

\* the result dict of one node of a connectivity query
connectivity_item(node_name, node_attrs, return_spec) ==
    [field \in {"name"} \cup Range(return_spec) |->
        IF field = "name" THEN Str(node_name)
        ELSE IF field = "properties"
        THEN [key \in DOMAIN node_attrs \ ReservedKeys |-> node_attrs[key]]
        ELSE dict_get(node_attrs, field)]

\* the edges that touch all_nodes, whether or not they stay inside
formatted_edges_Touching(edges, all_nodes) ==
    {[source |-> e.source, target |-> e.target, type |-> e.type, weight |-> e.weight] :
        e \in {x \in Range(edges) : x.source \in all_nodes \/ x.target \in all_nodes}}

\* the edges of get_subgraph(all_nodes), formatted; a set, as the order of
\* the list follows the iteration of a set
formatted_edges(edges, all_nodes) ==
    {[source |-> e.source, target |-> e.target, type |-> e.type, weight |-> e.weight] :
        e \in {x \in Range(edges) : x.source \in all_nodes /\ x.target \in all_nodes}}

\* all_connected: what find_connected_entities returns over the starting nodes
all_connected_of(nodes, edges, starting_nodes, depth, relations) ==
    UNION {find_connected_entities(nodes, edges, starting_nodes[i], depth,
                                   relations, "both") :
                i \in 1..Len(starting_nodes)}

\* _execute_connectivity_query from its starting nodes on.  all_nodes holds
\* the nodes of the result in the order `for node_name in all_nodes` meets
\* them; connected_nodes is kept as the set it is made from
connectivity_result(nodes, edges, starting_nodes, relations, depth, return_spec, query_def, all_nodes) ==
    LET formatted_nodes ==
            [i \in 1..Len(all_nodes) |->
                connectivity_item(all_nodes[i], nodes[all_nodes[i]], return_spec)]
        limited == _apply_sorting_and_limiting(formatted_nodes, query_def)
        subgraph_edges == formatted_edges(edges, Range(all_nodes))
    IN  IF starting_nodes = <<>>
        THEN "nodes" :> <<>> @@ "edges" :> {} @@ "starting_nodes" :> <<>>
                @@ "connected_nodes" :> {}
        ELSE "nodes" :> limited
                @@ "edges" :> subgraph_edges
                @@ "starting_nodes" :> starting_nodes
                @@ "connected_nodes" :>
                        all_connected_of(nodes, edges, starting_nodes, depth, relations)
                @@ "node_count" :> Len(limited)
                @@ "edge_count" :> Cardinality(subgraph_edges)

\* the value where _apply_all_filters does not raise
_execute_connectivity_query(nodes, edges, node_list, nodes_def, relations, depth, return_spec, query_def, embeddings, all_nodes) ==
    connectivity_result(nodes, edges,
                        _apply_all_filters(nodes, node_list, nodes_def, query_def,
                                           embeddings),
                        relations, depth, return_spec, query_def, all_nodes)

\* set(starting_nodes) with all that is connected to them
all_nodes_of(nodes, edges, starting_nodes, depth, relations) ==
    Range(starting_nodes)
        \cup all_connected_of(nodes, edges, starting_nodes, depth, relations)

\* the nodes a connectivity query formats
connectivity_nodes(nodes, edges, node_list, nodes_def, relations, depth, query_def, embeddings) ==
    all_nodes_of(nodes, edges,
                 _apply_all_filters(nodes, node_list, nodes_def, query_def, embeddings),
                 depth, relations)

\* query_def.get('depth', 2)
DefaultDepth == 2

\* execute() of _compile_find_nodes_query; all_nodes is the order a
\* connectivity query meets its nodes in
find_nodes_execute(nodes, edges, node_list, query_def, embeddings, all_nodes) ==
    IF query_def.k # "map"
    THEN LET has_nodes == nodes_in(query_def)
         IN  IF has_nodes.raises # "" THEN has_nodes
             ELSE IF has_nodes.value
             THEN Raise("TypeError", "indices must be integers")
             ELSE no_get(query_def)
    ELSE LET d == query_def.d
             nodes_def == extract_nodes_definition(d)
         IN  IF _apply_all_filters_raises(nodes_def)
             THEN threshold_outcome(nodes_def)
             ELSE IF "relations" \in DOMAIN d \/ "depth" \in DOMAIN d
             THEN Return(RDict(_execute_connectivity_query(
                            nodes, edges, node_list, nodes_def,
                            get(d, "relations", {}), get(d, "depth", DefaultDepth),
                            get(d, "return", <<"name", "type">>), d, embeddings,
                            all_nodes)))
             ELSE Return(RList(_execute_node_filter_query(nodes, node_list, nodes_def,
                                                          d, embeddings)))

(***************************************************************************)
(* Query engine: execute_query (query_engine.py, result_formatters.py)     *)
(***************************************************************************)
format_query_response_AlwaysResults(success, query_name, query_type, results, execution_time, error) ==
    "success" :> success @@ "query_name" :> query_name @@ "query_type" :> query_type
        @@ "execution_time" :> execution_time
        @@ "results" :> results
        @@ "result_count" :> (IF results.kind = "list" THEN Len(results.items) ELSE 1)
        @@ (IF success THEN EmptyMap ELSE "error" :> error)

format_query_response(success, query_name, query_type, results, execution_time, error) ==
    "success" :> success @@ "query_name" :> query_name @@ "query_type" :> query_type
        @@ "execution_time" :> execution_time
        @@ (IF success
            THEN "results" :> results
                    @@ "result_count" :>
                            (IF results.kind = "list" THEN Len(results.items) ELSE 1)
            ELSE "error" :> error)

\* compiled_query()
run_compiled(nodes, edges, node_list, compiled_query, embeddings, all_nodes) ==
    IF compiled_query.run = "find_path"
    THEN find_path_execute(compiled_query.query_def)
    ELSE find_nodes_execute(nodes, edges, node_list, compiled_query.query_def,
                            embeddings, all_nodes)

\* the try block of execute_query after the run: the results with the parsed
\* query, or the exception of the run
after_run(parsed, results) ==
    IF results.raises # "" THEN results
    ELSE Return([parsed |-> parsed, results |-> results.value])

\* the try block after compile_query
after_compile(nodes, edges, node_list, parsed, compiled_query, embeddings, all_nodes) ==
    IF compiled_query.raises # "" THEN compiled_query
    ELSE after_run(parsed, run_compiled(nodes, edges, node_list, compiled_query.value,
                                        embeddings, all_nodes))

\* the try block after parse_yaml_query
after_parse(nodes, edges, node_list, parsed, embeddings, all_nodes) ==
    IF parsed.raises # "" THEN parsed
    ELSE after_compile(nodes, edges, node_list, parsed.value,
                       compile_query(parsed.value), embeddings, all_nodes)

\* what leaves the try block of execute_query: the results with the parsed
\* query, or the exception
execute_body(nodes, edges, node_list, query_data, embeddings, all_nodes) ==
    after_parse(nodes, edges, node_list, parse_yaml_query(query_data), embeddings,
                all_nodes)

\* except Exception: every exception of the model is one
engine_catches(exception) == TRUE

NoResults == [kind |-> "none"]

\* the envelope for what left the try block
response_to(body, execution_time) ==
    IF body.raises = ""
    THEN Return(format_query_response(TRUE, body.value.parsed.name,
                                      body.value.parsed.type, body.value.results,
                                      execution_time, ""))
    ELSE IF engine_catches(body.raises)
    THEN Return(format_query_response(FALSE, YKey("unknown"), YKey("unknown"),
                                      NoResults, execution_time, body.value))
    ELSE body

execute_query(nodes, edges, node_list, query_data, embeddings, all_nodes, execution_time) ==
    response_to(execute_body(nodes, edges, node_list, query_data, embeddings, all_nodes),
                execution_time)

(***************************************************************************)
(* Query engine: runs                                                      *)
(***************************************************************************)
\* the entities the engine's queries run on: id -> <<type, description>>
EngineEntities ==
    <<"a">> :> <<"Person", "d">>
    @@ <<"b">> :> <<"file", "">>
    @@ <<"c">> :> <<"file", "e">>

\* the orders in which up to MaxItems of them are added to an empty store
EngineOrders ==
    UNION {{f \in [1..k -> DOMAIN EngineEntities] :
                \A i, j \in 1..k : i # j => f[i] # f[j]} : k \in 0..MaxItems}

\* self.graph.nodes after add_entity on each id of order, at clock 1, 2, ...
RECURSIVE engine_nodes(_)
engine_nodes(order) ==
    IF order = <<>> THEN EmptyMap
    ELSE LET id == order[Len(order)]
         IN  add_entity_nodes(engine_nodes(SubSeq(order, 1, Len(order) - 1)), id,
                              EngineEntities[id][1], "size" :> Num(Len(order)),
                              EngineEntities[id][2], Len(order))

\* the chain a -> b -> c, as far as its entities are in the store
chain_edges(nodes) ==
    add_relationship_edges(
        nodes,
        add_relationship_edges(nodes, <<>>, <<"a">>, <<"b">>, "knows", 1),
        <<"b">>, <<"c">>, "owns", 1)

\* the text of the queries' similar_to
QueryText == <<"q">>

\* a model that places the descriptions 'd' and 'e' and the id 'b' at the
\* similarities 0.5, 0.8 and 0.7 to the query text
Encode ==
    QueryText :> <<10, 0, 0, 0>>
    @@ <<"d">> :> <<5, 5, 5, 5>>
    @@ <<"e">> :> <<8, 6, 0, 0>>
    @@ <<"b">> :> <<7, 1, 5, 5>>

\* no manager, a manager, and managers whose model fails on one text
Providers ==
    {NoEmbeddings, EmbeddingManager(Encode, {}), EmbeddingManager(Encode, {<<"d">>}),
     EmbeddingManager(Encode, {QueryText})}

\* qry of an engine no query has run on
EngineIdle(node_list, embeddings) ==
    [node_list |-> node_list, op |-> "none", embeddings |-> embeddings,
     query_data |-> YNone, all_nodes |-> <<>>, outcome |-> Return(NoResults)]

EngineInit ==
    \E order \in EngineOrders, linked \in BOOLEAN, embeddings \in Providers :
        /\ graph_nodes = engine_nodes(order)
        /\ graph_edges = IF linked THEN chain_edges(engine_nodes(order)) ELSE <<>>
        /\ clock = Len(order) + 1
        /\ last = IF linked
                  THEN [NoCall EXCEPT
                          !.op = "add_relationship", !.name = <<"b">>,
                          !.to = <<"c">>, !.type = "owns",
                          !.ret = add_relationship_returns(engine_nodes(order),
                                        <<"b">>, <<"c">>, "owns")]
                  ELSE IF order = <<>> THEN NoCall
                  ELSE [NoCall EXCEPT !.op = "add_entity",
                                      !.name = order[Len(order)],
                                      !.type = EngineEntities[order[Len(order)]][1],
                                      !.ret = TRUE]
        /\ bfs = BfsIdle
        /\ qry = EngineIdle(order, embeddings)

\* the nodes of the result where body is what a connectivity query left
nodes_met(body) ==
    IF body.raises = "" /\ body.value.results.kind = "dict"
    THEN connectivity_nodes(graph_nodes, graph_edges, qry.node_list,
                            extract_nodes_definition(body.value.parsed.definition.d),
                            get(body.value.parsed.definition.d, "relations", {}),
                            get(body.value.parsed.definition.d, "depth", DefaultDepth),
                            body.value.parsed.definition.d, qry.embeddings)
    ELSE {}

\* the nodes a connectivity query on the text formats, none for another text
connectivity_of(query_data) ==
    nodes_met(execute_body(graph_nodes, graph_edges, qry.node_list, query_data,
                           qry.embeddings, <<>>))

\* the orders a set is iterated in
Orders(S) == {f \in [1..Cardinality(S) -> S] : Range(f) = S}

\* KnowledgeGraphQueryEngine.execute_query; elapsed is the rounded time the
\* run took.  A run reads the store and leaves it alone, so one run per store
\* is followed
ExecuteQuery(query_data, elapsed) ==
    /\ qry.op = "none"
    /\ \E all_nodes \in Orders(connectivity_of(query_data)) :
        qry' = [qry EXCEPT
                  !.op = "execute_query",
                  !.query_data = query_data,
                  !.all_nodes = all_nodes,
                  !.outcome = execute_query(graph_nodes, graph_edges, qry.node_list,
                                            query_data, qry.embeddings, all_nodes,
                                            elapsed)]
    /\ UNCHANGED <<graph_nodes, graph_edges, clock, last, bfs>>

\* QueryParser.parse_yaml_query on yaml.safe_load of a text
ParseYamlQuery(query_data) ==
    /\ qry.op = "none"
    /\ qry' = [qry EXCEPT !.op = "parse_yaml_query",
                          !.query_data = query_data,
                          !.outcome = parse_yaml_query(query_data)]
    /\ UNCHANGED <<graph_nodes, graph_edges, clock, last, bfs>>

\* d without the keys of S
Without(d, S) == [key \in DOMAIN d \ S |-> d[key]]

\* d with only the keys of S
Only(d, S) == [key \in DOMAIN d \cap S |-> d[key]]

\* the node clauses of the queries
Clauses ==
    {a @@ b @@ c :
        a \in Opt("type", {"file", "Person"}),
        b \in Opt("return", {<<"name", "description">>}),
        c \in Opt("properties", {"size" :> OpCondition("gte" :> Num(2))})}

\* the keys that choose connectivity mode, and none of them
Modes == {EmptyMap, "depth" :> 1, "relations" :> {"knows"}}

\* the clauses flat, and under a nodes section with some of them left outside
NodeQueries ==
    {clauses @@ mode : clauses \in Clauses, mode \in Modes}
        \cup {("nodes" :> Without(clauses, outer)) @@ Only(clauses, outer) @@ mode :
                clauses \in Clauses, outer \in SUBSET {"type", "return", "properties"},
                mode \in Modes}

Threshold05 == Str(<<">", "=", " ", "0", ".", "5">>)
Threshold06 == Str(<<">", " ", "0", ".", "6">>)
ThresholdBad == Str(<<">", "=", " ", "1", ".", "2", ".", "3">>)

SemanticQueries ==
    {("similar_to" :> QueryText) @@ t :
        t \in Opt("threshold", {Threshold05, Threshold06, ThresholdBad})}
        \cup {"nodes" :> ("similar_to" :> QueryText),
              "similar_to" :> QueryText @@ "depth" :> 1}

PathQueries ==
    {a @@ b @@ c :
        a \in Opt("from", {<<"a">>}), b \in Opt("to", {<<"c">>}),
        c \in Opt("max_hops", {5})}

\* a text that loads as name: {kind: definition}
Query(kind, definition) == YMap("q", "q" :> YMap(kind, kind :> definition))

WellFormed ==
    {Query(kind, Dict(d)) : kind \in {"find", "find_nodes"},
                            d \in NodeQueries \cup SemanticQueries}
        \cup {Query(kind, Dict(d)) : kind \in {"find_path", "delete"}, d \in PathQueries}

\* the texts that are not two nested non-empty mappings
Malformed ==
    {YamlError, YNone, YInt(5), YStr(<<>>), YStr(<<"q">>),
     YList(<<>>), YList(<<YStr(<<"q">>)>>), YList(<<YInt(0)>>), YList(<<YInt(5)>>),
     YList(<<YInt(1), Dict("find_nodes" :> Dict(EmptyMap))>>),
     YList(<<YInt(-1), YInt(7), Dict(EmptyMap)>>),
     Dict(EmptyMap)}
        \cup {YMap("q", "q" :> v) :
                v \in {YNone, YInt(5), YStr(<<>>), YStr(<<"q">>), YList(<<>>),
                       YList(<<YInt(0)>>), Dict(EmptyMap)}}

\* a definition that is no mapping
Undefined == {Query(kind, YNone) : kind \in {"find", "find_nodes", "find_path"}}

QueryTexts == WellFormed \cup Malformed \cup Undefined

\* the rounded execution time, in ten-thousandths of a second
Elapsed == {0, 1}

NextEngine ==
    \/ \E query_data \in QueryTexts, elapsed \in Elapsed :
            ExecuteQuery(query_data, elapsed)
    \/ \E query_data \in QueryTexts : ParseYamlQuery(query_data)

SpecEngine == EngineInit /\ [][NextEngine]_vars

(***************************************************************************)
(* Properties of the query engine                                          *)
(***************************************************************************)
Executed == qry.op = "execute_query"

\* the envelope execute_query returned
Envelope == qry.outcome.value

Succeeded == Executed /\ qry.outcome.raises = "" /\ Envelope["success"]

\* the kind and the definition of a text of two nested mappings
KindOf(query_data) == query_data.d["q"].first
DefinitionOf(query_data) == query_data.d["q"].d[KindOf(query_data)]

\* the store holds the chain a -> b -> c
ChainStore ==
    /\ DOMAIN graph_nodes = {<<"a">>, <<"b">>, <<"c">>}
    /\ {<<e.source, e.target>> : e \in Range(graph_edges)}
            = {<<<<"a">>, <<"b">>>>, <<<<"b">>, <<"c">>>>}

PathAC == Query("find_path", Dict("from" :> <<"a">> @@ "to" :> <<"c">> @@ "max_hops" :> 5))

\* C12: a find_path query from a to c with max_hops 5 on a store that holds
\* the chain a -> b -> c succeeds, and a result of it has the path [a, b, c]
\* and the length 2
C12_PathOfChain ==
    (Executed /\ ChainStore /\ qry.query_data = PathAC) =>
        /\ Succeeded
        /\ Envelope["results"].kind = "list"
        /\ \E i \in 1..Len(Envelope["results"].items) :
                /\ Envelope["results"].items[i]["path"] = <<<<"a">>, <<"b">>, <<"c">>>>
                /\ Envelope["results"].items[i]["length"] = 2

\* the texts that are to fail: malformed, of an unknown kind, a path-find
\* without from or to, and those whose compiled query fails
MustFail(query_data) ==
    \/ query_data \in Malformed
    \/ /\ query_data \in WellFormed
       /\ \/ KindOf(query_data) \notin {"find", "find_nodes", "find_path"}
          \/ /\ KindOf(query_data) = "find_path"
             /\ ~({"from", "to"} \subseteq DOMAIN DefinitionOf(query_data).d)
    \/ LET parsed == parse_yaml_query(query_data)
       IN  /\ parsed.raises = ""
           /\ compile_query(parsed.value).raises = ""
           /\ execute_body(graph_nodes, graph_edges, qry.node_list, query_data,
                           qry.embeddings, qry.all_nodes).raises # ""

FailureEnvelope ==
    /\ qry.outcome.raises = ""
    /\ Envelope["success"] = FALSE
    /\ "error" \in DOMAIN Envelope
    /\ "execution_time" \in DOMAIN Envelope

\* C13: execute_query never raises, and for a malformed text, an unknown
\* query kind, a path-find without from or to and a failure of the compiled
\* query it returns an envelope with success false, an error and an
\* execution time
C13_NeverRaises ==
    Executed =>
        /\ qry.outcome.raises = ""
        /\ MustFail(qry.query_data) => FailureEnvelope

CommonKeys == {"success", "query_name", "query_type", "execution_time"}

\* C14: every envelope has success, query_name, query_type and
\* execution_time; with success true it has results and result_count (the
\* length of a list, 1 for the dict of a connectivity query) and no error, with
\* success false it has error and neither results nor result_count
C14_EnvelopeKeys ==
    (Executed /\ qry.outcome.raises = "") =>
        IF Envelope["success"]
        THEN /\ DOMAIN Envelope = CommonKeys \cup {"results", "result_count"}
             /\ Envelope["result_count"] =
                    IF Envelope["results"].kind = "list"
                    THEN Len(Envelope["results"].items) ELSE 1
        ELSE DOMAIN Envelope = CommonKeys \cup {"error"}

C14_Witness ==
    /\ Succeeded
    /\ Envelope["results"].kind = "dict"
    /\ Envelope["results"].d["nodes"] # <<>>
    /\ Envelope["result_count"] = 1

\* C15: parse_yaml_query raises the format error on every malformed text: one
\* that is no YAML, one whose top level is no mapping or an empty mapping,
\* and one whose top-level value is no non-empty mapping
C15_FormatError ==
    (qry.op = "parse_yaml_query" /\ qry.query_data \in Malformed) =>
        qry.outcome = FormatError

\* the clauses that select and shape nodes
NodeKeys == {"type", "return", "properties", "similar_to", "threshold"}

\* a flat definition with its node clauses put under a nodes section
Nested(d) == ("nodes" :> Only(d, NodeKeys)) @@ Without(d, NodeKeys)

\* a text of the given kind whose definition has no nodes section ran
FlatRun(kind) ==
    /\ Executed
    /\ qry.query_data \in WellFormed
    /\ KindOf(qry.query_data) = kind
    /\ "nodes" \notin DOMAIN DefinitionOf(qry.query_data).d

\* execute_query on the same store would return the same for definition d
SameOutcome(kind, d) ==
    \E all_nodes \in Orders(connectivity_of(Query(kind, Dict(d)))) :
        qry.outcome = execute_query(graph_nodes, graph_edges, qry.node_list,
                                    Query(kind, Dict(d)), qry.embeddings, all_nodes,
                                    Envelope["execution_time"])

ConnectivityMode(d) == "relations" \in DOMAIN d \/ "depth" \in DOMAIN d

Moved(d, key) ==
    ("nodes" :> Without(d["nodes"], {key})) @@ (key :> d["nodes"][key])
        @@ Without(d, {"nodes"})

\* C17: in a definition with a nodes section a return, type or properties
\* clause under nodes has the effect it has at the outer level, in simple
\* filter mode and in connectivity mode
C17_EitherLevel ==
    (/\ Executed
     /\ qry.query_data \in WellFormed
     /\ KindOf(qry.query_data) \in {"find", "find_nodes"}
     /\ "nodes" \in DOMAIN DefinitionOf(qry.query_data).d) =>
        \A key \in {"return", "type", "properties"}
                        \cap DOMAIN DefinitionOf(qry.query_data).d["nodes"] :
            SameOutcome(KindOf(qry.query_data),
                        Moved(DefinitionOf(qry.query_data).d, key))

\* the node clauses of the text that ran
NodesDefOf(query_data) == extract_nodes_definition(DefinitionOf(query_data).d)

\* a node query with similar_to ran to a list of results
SemanticRun ==
    /\ Executed
    /\ qry.query_data \in WellFormed
    /\ KindOf(qry.query_data) \in {"find", "find_nodes"}
    /\ "similar_to" \in DOMAIN NodesDefOf(qry.query_data)
    /\ Succeeded
    /\ Envelope["results"].kind = "list"

\* the ids of the results
ResultIds ==
    {Envelope["results"].items[i]["name"].s : i \in 1..Len(Envelope["results"].items)}

\* the similarity, in hundredths, of the query text and a text
SimilarityTo(t) ==
    dot(generate_embedding(qry.embeddings, QueryText).value,
        generate_embedding(qry.embeddings, t).value)

\* the manager is there and its model fails on no text
ProviderWorks == qry.embeddings.present /\ qry.embeddings.fails = {}

\* C18: with similar_to and no threshold a candidate is kept if and only if
\* its similarity is at least 0.5, so one at exactly 0.5 is kept
C18_DefaultThreshold ==
    (SemanticRun /\ ProviderWorks /\ "threshold" \notin DOMAIN NodesDefOf(qry.query_data)) =>
        \A n \in DOMAIN graph_nodes :
            n \in ResultIds <=> SimilarityTo(text_to_embed(graph_nodes[n], n)) >= 50

\* a node query with similar_to and a threshold that parses was compiled
SemanticQueryRan ==
    /\ Executed
    /\ qry.query_data \in WellFormed
    /\ KindOf(qry.query_data) \in {"find", "find_nodes"}
    /\ "similar_to" \in DOMAIN NodesDefOf(qry.query_data)
    /\ compile_query(parse_yaml_query(qry.query_data).value).raises = ""
    /\ threshold_outcome(NodesDefOf(qry.query_data)).raises = ""

\* the model fails on the text embedded for candidate n
EmbeddingFails(n) ==
    generate_embedding(qry.embeddings, text_to_embed(graph_nodes[n], n)).raises # ""

\* candidate n passes the threshold of the query
PassesThreshold(n) ==
    similarity_holds(threshold_outcome(NodesDefOf(qry.query_data)).value.operator,
                     SimilarityTo(text_to_embed(graph_nodes[n], n)),
                     threshold_outcome(NodesDefOf(qry.query_data)).value.value)

\* C19: in the semantic filter a failure on one candidate leaves out that
\* candidate only and the others are still compared; without a manager the
\* filter gives no candidate; either way the query ends with success and no
\* error
C19_ProviderFailure ==
    SemanticQueryRan =>
        /\ Succeeded
        /\ "error" \notin DOMAIN Envelope
        /\ (~qry.embeddings.present /\ Envelope["results"].kind = "list") =>
                Envelope["results"].items = <<>>
        /\ (/\ qry.embeddings.present
            /\ QueryText \notin qry.embeddings.fails
            /\ Envelope["results"].kind = "list") =>
                \A n \in DOMAIN graph_nodes :
                    n \in ResultIds <=> (~EmbeddingFails(n) /\ PassesThreshold(n))

C19_Witness ==
    /\ SemanticQueryRan
    /\ Envelope["results"].kind = "list"
    /\ qry.embeddings.present
    /\ \E n \in DOMAIN graph_nodes : EmbeddingFails(n) /\ n \notin ResultIds
    /\ \E n \in DOMAIN graph_nodes : ~EmbeddingFails(n) /\ n \in ResultIds

\* the text the filter is to embed for candidate n: its description, or its
\* id when the description is empty
DescriptionOrId(n) ==
    IF text(graph_nodes[n]["description"]) # <<>>
    THEN text(graph_nodes[n]["description"])
    ELSE n

\* C20: the semantic filter compares, for every entity add_entity made, the
\* embedding of its description, and of its id when the description is empty
C20_DescriptionOrId ==
    (SemanticRun /\ ProviderWorks) =>
        \A n \in DOMAIN graph_nodes :
            n \in ResultIds <=>
                similarity_holds(
                    threshold_outcome(NodesDefOf(qry.query_data)).value.operator,
                    SimilarityTo(DescriptionOrId(n)),
                    threshold_outcome(NodesDefOf(qry.query_data)).value.value)

ConnectivityKeys ==
    {"nodes", "edges", "starting_nodes", "connected_nodes", "node_count", "edge_count"}

\* a query in connectivity mode ran to its result
ConnectivityRun == Succeeded /\ Envelope["results"].kind = "dict"

\* C21: the result of every query in connectivity mode is a map with the six
\* keys nodes, edges, starting_nodes, connected_nodes, node_count and
\* edge_count, also when no candidate passes the filters
C21_SixKeys ==
    ConnectivityRun => DOMAIN Envelope["results"].d = ConnectivityKeys

(***************************************************************************)
(* Properties of sorting and limiting                                      *)
(***************************************************************************)
\* a node query ran
SortRun == qry.op = "find_nodes"

\* the run's query with a key taken out
Dropping(key) ==
    [k \in DOMAIN qry.query_def \ {key} |-> qry.query_def[k]]

\* what the store answers to a node query
Answer(query_def) ==
    _execute_node_filter_query(graph_nodes, qry.node_list,
                               extract_nodes_definition(query_def), query_def,
                               NoEmbeddings)

\* the run ordered by a list of sort specs and truncated nothing
MultiFieldRun ==
    /\ SortRun
    /\ "order_by" \in DOMAIN qry.query_def
    /\ qry.query_def["order_by"].kind = "list"
    /\ "limit" \notin DOMAIN qry.query_def

\* the normalized value of an item under the field of a sort spec
ValueUnder(item, spec) == get_sort_key(item, get(spec, "field", ""))

\* the listed fields on which two items' normalized values differ
Differing(item1, item2, sort_specs) ==
    {k \in 1..Len(sort_specs) :
        ValueUnder(item1, sort_specs[k]) # ValueUnder(item2, sort_specs[k])}

\* every two items have values of one kind under every listed field
Comparable(results, sort_specs) ==
    \A i, j \in 1..Len(results) : \A k \in 1..Len(sort_specs) :
        ValueUnder(results[i], sort_specs[k]).kind
            = ValueUnder(results[j], sort_specs[k]).kind

\* the place of an item's entity in the input of the sort
InputPlace(item) ==
    CHOOSE i \in 1..Len(qry.node_list) : qry.node_list[i] = item["name"].s

\* item1 is to stand before item2
StandsBefore(item1, item2, sort_specs) ==
    LET differing == Differing(item1, item2, sort_specs)
    IN  IF differing = {} THEN InputPlace(item1) < InputPlace(item2)
        ELSE LET k == CHOOSE i \in differing : \A j \in differing : i <= j
                 v1 == ValueUnder(item1, sort_specs[k])
                 v2 == ValueUnder(item2, sort_specs[k])
             IN  IF get(sort_specs[k], "direction", "asc") = "asc"
                 THEN key_less(v1, v2)
                 ELSE key_less(v2, v1)

\* C22: with order_by a list of {field, direction} objects the results are
\* in lexicographic order: two items stand in the order of the first listed
\* field on which their normalized values differ, in that field's direction
\* (asc when none is given), and items equal on every listed field stand in
\* their input order. Stated for result sets whose values under each listed
\* field are of one kind, the sets a comparison is defined on.
C22_Lexicographic ==
    (MultiFieldRun /\ Comparable(qry.results, qry.query_def["order_by"].specs)) =>
        \A i, j \in 1..Len(qry.results) :
            i < j => StandsBefore(qry.results[i], qry.results[j],
                                  qry.query_def["order_by"].specs)

\* size desc, then name asc: y(2048) first, u and x (both 512) by name
C22_Witness ==
    /\ MultiFieldRun
    /\ qry.query_def["order_by"].specs = SizeDescNameAsc
    /\ qry.node_list = << <<"x">>, <<"u">>, <<"y">> >>
    /\ ResultNames(qry.results) = << <<"y">>, <<"u">>, <<"x">> >>

\* the value under limit of the run's query
LimitOf == get(qry.query_def, "limit", None)

\* the first min(k, n) elements of a list of n
FirstOf(results, k) ==
    [i \in 1..(IF k < Len(results) THEN k ELSE Len(results)) |-> results[i]]

\* C23: with limit k, a positive integer, a node query returns exactly the
\* first min(k, n) elements of the n results it returns without the limit
\* (sorted, or with no order_by as filtered); with a limit that is absent,
\* zero, negative or not an integer (a string, a float, a boolean) it returns
\* all n of them.
C23_Limit ==
    SortRun =>
        IF LimitOf.kind = "num" /\ LimitOf.n > 0
        THEN qry.results = FirstOf(Answer(Dropping("limit")), LimitOf.n)
        ELSE qry.results = Answer(Dropping("limit"))

\* the run ordered by one field
SingleFieldRun ==
    /\ SortRun
    /\ "order_by" \in DOMAIN qry.query_def
    /\ qry.query_def["order_by"].kind = "str"

\* the results before sorting and limiting
Unsorted == Answer(Dropping("limit") @@ ("order_by" :> NoOrder))

\* two of the items to sort have normalized values of two kinds under f
MixedKinds(results, f) ==
    \E i, j \in 1..Len(results) :
        get_sort_key(results[i], f).kind # get_sort_key(results[j], f).kind

\* C28: when the normalized values of the sort field are of incomparable
\* kinds within the items to sort (a number for one, a missing value for
\* another), the query raises nothing and answers what it answers without
\* order_by: the items in their order before the sort, none moved, with the
\* limit applied to that order.
C28_MixedKindsUnsorted ==
    (SingleFieldRun /\ MixedKinds(Unsorted, qry.query_def["order_by"].field)) =>
        qry.results = Answer(Dropping("order_by"))

\* y(2048), v(no size), x(512) by size with limit 2: y and v, as they came
C28_Witness ==
    /\ SingleFieldRun
    /\ qry.query_def["order_by"].field = "size"
    /\ qry.node_list = << <<"y">>, <<"v">>, <<"x">> >>
    /\ MixedKinds(Unsorted, "size")
    /\ LimitOf = Num(2)
    /\ ResultNames(qry.results) = << <<"y">>, <<"v">> >>

(***************************************************************************)
(* Query engine: runs told apart by return, mode and limit                 *)
(***************************************************************************)
\* node queries with a return specification, in both modes, with a limit
ResultQueries ==
    {a @@ b @@ c @@ d :
        a \in Opt("type", {"file"}),
        b \in {"return" :> r : r \in {<<"name", "properties">>, <<"name", "type">>}},
        c \in {EmptyMap, "depth" :> 1, "depth" :> 2, "relations" :> {"knows"}},
        d \in Opt("limit", {Num(1), Num(2)})}

ResultTexts ==
    {Query("find_nodes", Dict(d)) : d \in ResultQueries}
        \cup {Query("find", Dict(("nodes" :> Only(d, {"type", "return"}))
                                    @@ Without(d, {"type"}))) :
                d \in ResultQueries}

SizeFrom2 == "size" :> OpCondition("gte" :> Num(2))
SizeTo2 == "size" :> OpCondition("lte" :> Num(2))

\* node queries with a properties clause under nodes, outside, or both
PropertiesTexts ==
    {Query(kind, Dict(("nodes" :> (a @@ b)) @@ c @@ d)) :
        kind \in {"find", "find_nodes"},
        a \in Opt("type", {"file"}),
        b \in Opt("properties", {SizeFrom2, SizeTo2}),
        c \in Opt("properties", {SizeFrom2, SizeTo2}),
        d \in {EmptyMap, "depth" :> 1}}

NextResult ==
    \E query_data \in ResultTexts \cup PropertiesTexts, elapsed \in Elapsed :
        ExecuteQuery(query_data, elapsed)

SpecResult == EngineInit /\ [][NextResult]_vars

(***************************************************************************)
(* Properties of the formatted results                                     *)
(***************************************************************************)
\* the formatted nodes of a run that succeeded, in either mode
FormattedNodes ==
    IF Envelope["results"].kind = "dict"
    THEN Envelope["results"].d["nodes"]
    ELSE Envelope["results"].items

\* all attributes of an entity except type, description and the timestamps
AttributesOf(n) ==
    [key \in DOMAIN graph_nodes[n] \ {"type", "description", "created_at", "updated_at"}
        |-> graph_nodes[n][key]]

\* C24: for every entity and every return specification with `properties`,
\* the properties field of the formatted node is the map of all attributes
\* of the entity except type, description, created_at and updated_at, in
\* simple filter mode as in connectivity mode.
C24_PropertiesField ==
    Succeeded =>
        \A i \in 1..Len(FormattedNodes) :
            "properties" \in DOMAIN FormattedNodes[i] =>
                FormattedNodes[i]["properties"]
                    = AttributesOf(FormattedNodes[i]["name"].s)

(***************************************************************************)
(* Properties of the where conditions                                      *)
(***************************************************************************)
WhereRun == qry.op = "apply_where_conditions"

\* a leaf map: every literal equals the entity's value and every operator
\* condition of every field holds
LeafHolds(n, fields) ==
    \A f \in DOMAIN fields :
        /\ ~fields[f].isdict => dict_get(graph_nodes[n], f) = fields[f].lit
        /\ fields[f].isdict =>
                \A op \in DOMAIN fields[f].ops :
                    evaluate_property_condition(graph_nodes[n], f, op, fields[f].ops[op])

\* the boolean value of a where tree on entity n
RECURSIVE TreeValue(_, _)
TreeValue(n, c) ==
    CASE c.k = "dict" /\ DOMAIN c.d = {"all"} ->
            \A i \in 1..Len(c.d["all"]) : TreeValue(n, c.d["all"][i])
      [] c.k = "dict" /\ DOMAIN c.d = {"any"} ->
            \E i \in 1..Len(c.d["any"]) : TreeValue(n, c.d["any"][i])
      [] c.k = "dict" /\ DOMAIN c.d = {"not"} -> ~TreeValue(n, c.d["not"])
      [] c.k = "dict" /\ DOMAIN c.d \cap {"all", "any", "not"} = {} -> LeafHolds(n, c.d)
      [] c.k = "str" -> parse_string_condition(graph_nodes[n], c.s)
      [] OTHER -> FALSE

\* C25: apply_where_conditions keeps, in order, the candidates of the store
\* on which the where tree has its boolean value true: all is the
\* conjunction of its children (true when empty), any the disjunction (false
\* when empty), not the negation; a leaf map holds exactly when every
\* field's literal equals the entity's value and every operator condition of
\* every field holds; a condition that is no map and no string is false.
C25_TreeValue ==
    WhereRun =>
        qry.results = SelectSeq(qry.candidates,
                                LAMBDA n : /\ n \in DOMAIN graph_nodes
                                           /\ TreeValue(n, qry.where_spec))

\* of x(512), z(1024), y(2048): 1024 <= size <= 1024 and not size = 512
\* keeps z, where the properties filter on the same map keeps all three
C25_Witness ==
    /\ WhereRun
    /\ qry.where_spec = WDict("all" :> <<SizeIs1024, WDict("not" :> SizeIs512)>>)
    /\ qry.candidates = << <<"x">>, <<"z">>, <<"y">> >>
    /\ qry.results = << <<"z">> >>
    /\ filter_by_properties(graph_nodes, qry.candidates, SizeIs1024.d) = qry.candidates

(***************************************************************************)
(* Properties of the properties clauses                                    *)
(***************************************************************************)
\* a query with a properties clause under nodes or outside ran
PropertiesRun ==
    /\ Succeeded
    /\ qry.query_data \in PropertiesTexts

\* the candidates the run kept: its results, or its starting nodes
Kept ==
    IF Envelope["results"].kind = "dict"
    THEN Envelope["results"].d["starting_nodes"]
    ELSE [i \in 1..Len(Envelope["results"].items) |->
            Envelope["results"].items[i]["name"].s]

\* the store's nodes of the type the node clauses ask for
OfType(nodes_def) ==
    SelectSeq(qry.node_list,
              LAMBDA n : "type" \in DOMAIN nodes_def =>
                            graph_nodes[n]["type"] = nodes_def["type"])

\* the candidates of a list that match a properties clause
Matching(candidates, properties_spec) ==
    SelectSeq(candidates, LAMBDA n : properties_match(graph_nodes[n], properties_spec))

\* C26: a properties clause of the outer level filters, as a last pass,
\* exactly when the node clauses hold no properties key; when both levels
\* hold one, the clause of the node level alone filters and the outer one
\* has no effect; no clause filters twice.
C26_OuterProperties ==
    PropertiesRun =>
        LET d == DefinitionOf(qry.query_data).d
            nodes_def == NodesDefOf(qry.query_data)
        IN  Kept = IF "properties" \in DOMAIN nodes_def
                   THEN Matching(OfType(nodes_def), nodes_def["properties"])
                   ELSE IF "properties" \in DOMAIN d
                   THEN Matching(OfType(nodes_def), d["properties"])
                   ELSE OfType(nodes_def)

\* size >= 2 under nodes and size <= 2 outside, on a store of three: the
\* entities of size 2 and 3 are kept, the outer clause would leave one
C26_Witness ==
    /\ PropertiesRun
    /\ Cardinality(DOMAIN graph_nodes) = 3
    /\ NodesDefOf(qry.query_data) = "properties" :> SizeFrom2
    /\ "properties" \in DOMAIN DefinitionOf(qry.query_data).d
    /\ DefinitionOf(qry.query_data).d["properties"] = SizeTo2
    /\ Len(Kept) = 2

(***************************************************************************)
(* Properties of the traversal with relation types                         *)
(***************************************************************************)
\* C27: with direction incoming and relation_types R, a turn of the loop at
\* node c appends exactly the unvisited predecessors p of c to which an edge
\* c -> p of a type in R leads; the edge p -> c is not looked at.  With the
\* only edge B -> A typed rel, find_connected(A, 1, incoming, [rel]) returns
\* the empty list.
C27_IncomingChecksForwardEdge ==
    [][/\ (/\ bfs.pc = "loop" /\ bfs.queue # <<>>
           /\ bfs.direction = "incoming" /\ bfs.relation_types # {}
           /\ Head(bfs.queue)[2] < bfs.max_depth)
          => LET c == Head(bfs.queue)[1]
                 appended == Range(bfs'.connected_nodes) \ Range(bfs.connected_nodes)
             IN  /\ appended =
                        {p \in DOMAIN graph_nodes \ bfs.visited :
                            /\ \E e \in Range(graph_edges) :
                                    e.source = p /\ e.target = c
                            /\ \E e \in Range(graph_edges) :
                                    /\ e.source = c /\ e.target = p
                                    /\ e.type \in bfs.relation_types}
                 /\ bfs'.visited = bfs.visited \cup appended
       /\ (/\ bfs'.pc = "done"
           /\ Range(graph_edges) = {Edge(<<"B">>, <<"A">>, "rel")}
           /\ bfs'.start = <<"A">> /\ bfs'.max_depth = 1
           /\ bfs'.direction = "incoming" /\ bfs'.relation_types = {"rel"})
          => bfs'.connected_nodes = <<>>]_vars

\* find_connected(A, 1, incoming, [rel]) has returned [] where the only edge
\* is B -> A, typed rel
C27_Witness ==
    /\ Range(graph_edges) = {Edge(<<"B">>, <<"A">>, "rel")}
    /\ BfsReturned(<<"A">>, 1, {"rel"}, "incoming")
    /\ bfs.connected_nodes = <<>>

(***************************************************************************)
(* Properties of the connectivity result                                   *)
(***************************************************************************)
\* the result map of a connectivity run
Connectivity == Envelope["results"].d

\* a connectivity run that had a starting node
ExpansionRun == ConnectivityRun /\ Connectivity["starting_nodes"] # <<>>

\* starting_nodes with connected_nodes
Expanded == Range(Connectivity["starting_nodes"]) \cup Connectivity["connected_nodes"]

\* the ids of the returned nodes
Returned == {Connectivity["nodes"][i]["name"].s : i \in 1..Len(Connectivity["nodes"])}

\* the relationships of the store with both endpoints among ids
Induced(ids) == {e \in Range(graph_edges) : e.source \in ids /\ e.target \in ids}

\* the positive integer under limit, or the number of ids when there is none
LimitOn(d, ids) ==
    IF "limit" \in DOMAIN d /\ d["limit"].n < Cardinality(ids)
    THEN d["limit"].n
    ELSE Cardinality(ids)

\* C29: in a connectivity result with a starting node, edges is exactly the
\* set of relationships with both endpoints in starting_nodes with
\* connected_nodes, and edge_count their number, whatever the limit; the
\* limit truncates nodes alone and node_count is the truncated length; where
\* nothing was truncated every returned edge has both endpoints among the
\* returned nodes.
C29_EdgesOfExpansion ==
    ExpansionRun =>
        /\ {<<e.source, e.target, e.type>> : e \in Connectivity["edges"]}
                = {<<e.source, e.target, e.type>> : e \in Induced(Expanded)}
        /\ Connectivity["edge_count"] = Cardinality(Induced(Expanded))
        /\ Returned \subseteq Expanded
        /\ Cardinality(Returned) = Len(Connectivity["nodes"])
        /\ Len(Connectivity["nodes"])
                = LimitOn(DefinitionOf(qry.query_data).d, Expanded)
        /\ Connectivity["node_count"] = Len(Connectivity["nodes"])
        /\ Returned = Expanded =>
                \A e \in Connectivity["edges"] :
                    e.source \in Returned /\ e.target \in Returned

\* a and b expanded, one node returned under limit 1, the edge a -> b kept
C29_Witness ==
    /\ ExpansionRun
    /\ Expanded = {<<"a">>, <<"b">>}
    /\ "limit" \in DOMAIN DefinitionOf(qry.query_data).d
    /\ Len(Connectivity["nodes"]) = 1
    /\ Connectivity["edge_count"] = 1
    /\ \E e \in Connectivity["edges"] : e.source = <<"a">> /\ e.target = <<"b">>

(***************************************************************************)
(* Termination of the traversal                                            *)
(***************************************************************************)
\* no node is twice in the queue or twice in connected_nodes, and all of
\* them are marked visited
EnqueuedOnce ==
    /\ \A i, j \in 1..Len(bfs.queue) : i # j => bfs.queue[i][1] # bfs.queue[j][1]
    /\ \A i, j \in 1..Len(bfs.connected_nodes) :
            i # j => bfs.connected_nodes[i] # bfs.connected_nodes[j]
    /\ {bfs.queue[i][1] : i \in 1..Len(bfs.queue)} \subseteq bfs.visited
    /\ Range(bfs.connected_nodes) \subseteq bfs.visited \ {bfs.start}

\* a turn of the loop enqueues only nodes that were not visited before
EnqueuesUnvisited ==
    (bfs.pc = "loop" /\ bfs'.pc = "loop") =>
        \A i \in 1..Len(bfs'.queue) :
            bfs'.queue[i][1] \in bfs.visited =>
                \E j \in 1..Len(bfs.queue) : bfs.queue[j] = bfs'.queue[i]

\* C30: find_connected ends on every graph, with cycles, self-loops and
\* parallel edges, for every max_depth, direction and relation_types: every
\* node is marked visited and enqueued at most once, and the call that
\* entered its loop returns (or raises on a direction it does not know).
C30_Terminates ==
    /\ []EnqueuedOnce
    /\ [][EnqueuesUnvisited]_vars
    /\ (bfs.pc = "loop") ~> (bfs.pc \in {"done", "raised"})

\* a call from A has returned on a graph with the self-loop A -> A and the
\* cycle A -> B -> A
C30_Witness ==
    /\ Range(graph_edges) = {Edge(<<"A">>, <<"A">>, "rel"), Edge(<<"A">>, <<"B">>, "rel"),
                             Edge(<<"B">>, <<"A">>, "rel")}
    /\ BfsReturned(<<"A">>, 2, {}, "both")
    /\ bfs.connected_nodes = << <<"B">> >>

====
